---- MODULE Spec2Model ----
(***************************************************************************)
(* Suffix array construction (SA-IS / SACA-K), substring search over the   *)
(* finished array and its bit-packed serialisation, as state machines.     *)
(*                                                                         *)
(* Arrays and slices are TLA+ sequences; the source indexes from 0, so     *)
(* At(a, i) reads a[i] and Put(a, i, v) writes it.  A 32-bit word is held  *)
(* as the signed integer with the same bit pattern (0xffffffff is -1,      *)
(* 0x80000000 is -2^31): the model checker's integers are 32 bits wide.    *)
(* ULt is the unsigned order of words.                                     *)
(***************************************************************************)
EXTENDS Integers, Sequences, FiniteSets, TLC

VARIABLES
    pc,      \* position of the running operation
    s,       \* the byte string (level 0, search) or integer string (inner level)
    sa,      \* the workspace / suffix array
    slen,    \* s.len() as the entry point sees it, <<high half, low half>>
    salen,   \* sa.len() as the entry point sees it, <<high half, low half>>
    sa0,     \* the workspace as the caller passed it
    bucket,  \* level-0 Bucket: [bounds, ps, qs]
    cur,     \* h after the collection, n after the reduction
    pass,    \* which induction pass of level 0 is running (1 or 2)
    k,       \* alphabet scale: of the inner-level call, or found by the renaming
    engine,  \* which entry point or inner-level engine runs
    s0,      \* the string as it was when the operation was called
    bkt,     \* SuffixArray.bkt: the search bucket table, or None
    pat,     \* the pattern of the last query
    res,     \* the value the last operation returned
    data,    \* PackedSuffixArray.data, and what the decoder has left of it
    remain   \* the decoder's count of values still to produce

vars == <<pc, s, sa, slen, salen, sa0, bucket, cur, pass, k, engine, s0,
          bkt, pat, res, data, remain>>

(***************************************************************************)
(* Bounds of the model.                                                    *)
(***************************************************************************)
MaxLen2 == 8        \* longest two-letter byte string built at level 0
MaxLen3 == 4        \* longest three-letter byte string built at level 0
MaxIntsLen2 == 8    \* longest two-letter integer string given to the inner engine
MaxIntsLen == 4     \* longest integer string over the full alphabet [0, |s|)

(***************************************************************************)
(* 0-based sequence helpers.                                               *)
(***************************************************************************)
At(a, i) == a[i + 1]
Put(a, i, v) == [a EXCEPT ![i + 1] = v]
Slice(a, lo, hi) == SubSeq(a, lo + 1, hi)
\* a function over 1..n as a finite sequence value
Tup(f, n) == SubSeq(f, 1, n)
Fill(n, v) == Tup([j \in 1..n |-> v], n)
Min2(a, b) == IF a < b THEN a ELSE b
\* the element of a one-element set: The({e(x) : x \in {v}}) is e(v), with v
\* computed once
The(S) == CHOOSE x \in S : TRUE

\* unsigned comparison of two 32-bit words
ULt(x, y) == IF (x >= 0) = (y >= 0) THEN x < y ELSE y < 0

\* slice::copy_within / ptr::copy : memmove of n cells from src to dst
CopyWithin(a, src, dst, n) ==
    Tup([j \in 1..Len(a) |->
            IF j - 1 >= dst /\ j - 1 < dst + n THEN a[j - dst + src] ELSE a[j]],
        Len(a))

\* sa[lo..hi].iter_mut().for_each(|i| *i = v)
FillRange(a, lo, hi, v) ==
    Tup([j \in 1..Len(a) |-> IF j - 1 >= lo /\ j - 1 < hi THEN v ELSE a[j]],
        Len(a))

\* strings over a finite alphabet up to a length
RECURSIVE StringsOfLen(_, _)
StringsOfLen(A, n) ==
    IF n = 0 THEN {<<>>}
    ELSE {Append(w, c) : w \in StringsOfLen(A, n - 1), c \in A}
StringsUpTo(A, n) == UNION {StringsOfLen(A, m) : m \in 0..n}

\* Ord for slices: lexicographic, a proper prefix is smaller
RECURSIVE SeqLessFrom(_, _, _)
SeqLessFrom(x, y, j) ==
    IF j > Len(y) THEN FALSE
    ELSE IF j > Len(x) THEN TRUE
    ELSE IF x[j] < y[j] THEN TRUE
    ELSE IF x[j] > y[j] THEN FALSE
    ELSE SeqLessFrom(x, y, j + 1)
SeqLess(x, y) == SeqLessFrom(x, y, 1)
Suffix(str, i) == SubSeq(str, i + 1, Len(str))

(***************************************************************************)
(* construct/utils.rs                                                      *)
(***************************************************************************)
\* the calls f(i, c) made by for_each_lms, in order (needs Len(str) >= 1);
\* loop(i, t) is the loop from i down to 1 with the running type flag t
for_each_lms(str, sentinel) ==
    LET RECURSIVE loop(_, _)
        loop(i, t) ==
            IF i < 1 THEN <<>>
            ELSE LET l == At(str, i - 1)
                     c == At(str, i)
                     r == At(str, i + 1)
                     t1 == IF c < r THEN TRUE ELSE IF c > r THEN FALSE ELSE t
                 IN (IF l > c /\ t1 THEN << <<i, c>> >> ELSE <<>>)
                        \o loop(i - 1, t1)
    IN (IF sentinel THEN << <<Len(str), 0>> >> ELSE <<>>)
           \o loop(Len(str) - 2, FALSE)

\* peek: <<value, length, type>> of the maximal run of equal cells from i
peek(str, i) ==
    LET RECURSIVE loop(_, _)
        loop(n, x) ==
            IF x < Len(str)
            THEN IF At(str, x) > At(str, i) THEN <<At(str, i), n, TRUE>>
                 ELSE IF At(str, x) < At(str, i) THEN <<At(str, i), n, FALSE>>
                 ELSE loop(n + 1, x + 1)
            ELSE <<At(str, i), n, FALSE>>
    IN loop(1, i + 1)

\* an lms_substr_eq that compares the first characters only
lms_substr_eq_first(str, i0, j0) ==
    i0 = j0 \/ (i0 < Len(str) /\ j0 < Len(str) /\ At(str, i0) = At(str, j0))

\* lms_substr_eq: peak is the first loop (the s-type part and the peak), valley
\* the second (the l-type part until the valley), a and b the runs peeked
lms_substr_eq(str, i0, j0) ==
    LET RECURSIVE valley(_, _)
        valley(i, j) ==
            IF j < Len(str)
            THEN The({IF a[1] # b[1] \/ a[3] # b[3] THEN FALSE
                      ELSE IF a[3] THEN TRUE
                      ELSE IF a[2] # b[2] THEN FALSE
                      ELSE valley(i + a[2], j + b[2]) :
                      a \in {peek(str, i)}, b \in {peek(str, j)}})
            ELSE FALSE
        RECURSIVE peak(_, _, _)
        peak(i, j, last) ==
            IF j < Len(str) /\ At(str, i) >= last
            THEN IF At(str, i) # At(str, j) THEN FALSE
                 ELSE peak(i + 1, j + 1, At(str, i))
            ELSE valley(i, j)
        i == IF i0 > j0 THEN j0 ELSE i0
        j == IF i0 > j0 THEN i0 ELSE j0
    IN IF i = j THEN TRUE
       ELSE IF j = Len(str) \/ At(str, i) # At(str, j) THEN FALSE
       ELSE peak(i + 1, j + 1, At(str, i))

\* 0xffffffff, the mark of an unnamed cell of head
NIL32 == -1
\* 0x7fffffff, the low 31 bits of a word all set
Low31 == 2147483647

\* a renaming that gives every lms substring a name of its own
rename_substrs_distinct(str, head, tail) ==
    LET RECURSIVE loop(_, _, _, _)
        loop(h, p, kk, wr) ==
            IF p > Len(tail) THEN [head |-> h, k |-> kk, wr |-> wr]
            ELSE loop(Put(h, tail[p] \div 2, kk), p + 1, kk + 1,
                      Append(wr, <<tail[p], tail[p] \div 2>>))
    IN loop(Fill(Len(head), NIL32), 2, 0, <<>>)

\* rename_substrs (serial): [head, k, wr]; loop(h, p, j, kk, wr) is the loop
\* over tail[p..], j the previous lms position, kk the names given so far and
\* wr the writes head[i / 2] made so far, each as <<i, i / 2>>
rename_substrs(str, head, tail) ==
    LET RECURSIVE loop(_, _, _, _, _)
        loop(h, p, j, kk, wr) ==
            IF p > Len(tail) THEN [head |-> h, k |-> kk, wr |-> wr]
            ELSE The({loop(Put(h, tail[p] \div 2, k1 - 1), p + 1, tail[p], k1,
                           Append(wr, <<tail[p], tail[p] \div 2>>)) :
                      k1 \in {IF lms_substr_eq(str, tail[p], j) THEN kk
                              ELSE kk + 1}})
    IN loop(Fill(Len(head), NIL32), 2, tail[1], 0, <<>>)

RECURSIVE sacak_u32s(_, _, _)
RECURSIVE llhsais(_, _, _)
RECURSIVE sacak1(_, _, _)
RECURSIVE sais_ints_mut(_, _, _)
RECURSIVE suffixes_from_substrs(_, _, _, _)

\* the sort closure handed to suffixes_from_substrs: [s, sa]
apply_sort(sort, str, kk, work) ==
    IF sort = "llhsais" THEN llhsais(str, kk, work)
    ELSE IF sort = "sacak1" THEN sacak1(str, kk, work)
    ELSE IF sort = "sais_ints_mut" THEN sais_ints_mut(str, kk, work)
    ELSE sacak_u32s(str, kk, work)

\* a copy that leaves out the last cell of tail
copy_tail_to_head_short(head, tail) ==
    Tup([j \in 1..Len(head) |-> IF j < Len(tail) THEN tail[j] ELSE head[j]],
        Len(head))

\* ptr::copy_nonoverlapping(&tail[0], &mut head[0], tail.len())
copy_tail_to_head(head, tail) ==
    Tup([j \in 1..Len(head) |-> IF j <= Len(tail) THEN tail[j] ELSE head[j]],
        Len(head))

\* a compaction that keeps the unnamed cells of head
compact_all(h, i, t) == [head |-> h, t |-> Len(h)]

\* suffixes_from_substrs, the loop that constructs the sub-problem: [head, t],
\* the names moved to the front of head; compact(h, i, t) is the rest of
\* for i in 0..head.len()
RECURSIVE compact(_, _, _)
compact(h, i, t) ==
    IF i >= Len(h) THEN [head |-> h, t |-> t]
    ELSE IF At(h, i) # NIL32 THEN compact(Put(h, t, At(h, i)), i + 1, t + 1)
    ELSE compact(h, i + 1, t)

\* suffixes_from_substrs: [head, tail].  rn is the renaming; compact gives
\* cp = [head, t], the names moved to the front of head; sub = [s, sa] is the
\* sorted sub-problem; table writes the lms positions to tail in text order;
\* remap is the last loop, head[p] = tail[head[p]]
suffixes_from_substrs(str, head, tail, sort) ==
    LET RECURSIVE table(_, _, _)
        table(tl, calls, h) ==
            IF calls = <<>> THEN tl
            ELSE table(Put(tl, h - 1, Head(calls)[1]), Tail(calls), h - 1)
        RECURSIVE remap(_, _, _)
        remap(h, tl, p) ==
            IF p >= Len(tl) THEN h
            ELSE remap(Put(h, p, At(tl, At(h, p))), tl, p + 1)
        rearrange(h, tl) == [head |-> remap(h, tl, 0), tail |-> tl]
        sorted(cp, sub) ==
            rearrange(copy_tail_to_head(
                          sub.s \o Slice(cp.head, cp.t, Len(cp.head)), sub.sa),
                      table(sub.sa, for_each_lms(str, TRUE), Len(tail)))
        compacted(kk, cp) ==
            sorted(cp, apply_sort(sort, Slice(cp.head, 0, cp.t), kk, tail))
        renamed(rn) ==
            IF rn.k + 1 = Len(tail)
            THEN [head |-> copy_tail_to_head(rn.head, tail), tail |-> tail]
            ELSE compacted(rn.k, compact(rn.head, 0, 0))
    IN renamed(rename_substrs(str, head, tail))
(***************************************************************************)
(* construct/sacak/sacak_u32s/mod.rs : the inner-level engine of SACA-K.   *)
(* A cell above EMPTY_U32S is a counter, stored as the two's complement of *)
(* the number of indices of its bucket.  A scan cursor is an integer;      *)
(* NoCursor stands for the argument None.                                  *)
(***************************************************************************)
\* 0x80000000
EMPTY_U32S == -2147483647 - 1
NoCursor == -1
\* no index: the turn of a scan that read no entry or made no insertion
NoEntry == -9

\* -(x as i32) as usize, for a counter cell x > EMPTY_U32S
neg32(x) == -x

\* get_ptr: the bucket pointer of position i, 0 for the sentinel
get_ptr(str, i) == IF i = Len(str) THEN 0 ELSE At(str, i)

\* a transformation that sends the L-type cells to the last index of their
\* bucket and the S-type cells to its head
transform_string_swapped(str, kk, work) ==
    LET buckets == Tup([j \in 1..Len(work) |->
                           IF j - 1 <= kk
                           THEN 1 + Cardinality({x \in 1..Len(str) : str[x] < j - 1})
                           ELSE work[j]],
                       Len(work))
        RECURSIVE loop(_, _, _, _, _)
        loop(st, w, x, r, t) ==
            IF x < 0 THEN [s |-> st, sa |-> w]
            ELSE LET c == At(st, x)
                     t1 == IF c < r THEN TRUE ELSE IF c > r THEN FALSE ELSE t
                     v == IF t1 THEN At(w, c) ELSE At(w, c + 1) - 1
                 IN loop(Put(st, x, v), w, x - 1, c, t1)
        pointers(w) ==
            loop(Put(str, Len(str) - 1, At(w, At(str, Len(str) - 1) + 1) - 1), w,
                 Len(str) - 2, At(str, Len(str) - 1), FALSE)
    IN pointers(buckets)

\* transform_string: [s, sa].  buckets is step 1, the bucket array built in
\* the workspace; loop is step 2 over s.iter_mut().rev().skip(1)
transform_string(str, kk, work) ==
    LET buckets == Tup([j \in 1..Len(work) |->
                           IF j - 1 <= kk
                           THEN 1 + Cardinality({x \in 1..Len(str) : str[x] < j - 1})
                           ELSE work[j]],
                       Len(work))
        RECURSIVE loop(_, _, _, _, _)
        loop(st, w, x, r, t) ==
            IF x < 0 THEN [s |-> st, sa |-> w]
            ELSE LET c == At(st, x)
                     t1 == IF c < r THEN TRUE ELSE IF c > r THEN FALSE ELSE t
                     v == IF t1 THEN At(w, c + 1) - 1 ELSE At(w, c)
                 IN loop(Put(st, x, v), w, x - 1, c, t1)
        pointers(w) ==
            loop(Put(str, Len(str) - 1, At(w, At(str, Len(str) - 1))), w,
                 Len(str) - 2, At(str, Len(str) - 1), FALSE)
    IN pointers(buckets)

\* a move that leaves the cursor where it was
sa_move_fixed(work, src, dst, n, ptr) ==
    [sa |-> CopyWithin(work, src, dst, n), p |-> ptr]

\* sa_move: [sa, p], p the cursor after the move
sa_move(work, src, dst, n, ptr) ==
    [sa |-> CopyWithin(work, src, dst, n),
     p |-> IF ptr # NoCursor /\ ptr >= src /\ ptr < src + n
           THEN ptr + dst - src ELSE ptr]

\* insert_head of sacak_u32s: [sa, p], p the cursor after the insertion.
\* scan is the loop looking for the counter of the bucket on the left that
\* borrowed the cell p; release (the first if) gives the borrowed cells back
\* once the scan stopped at q; put (the second if) writes i
u32s_insert_head(str, work, ptr, i) ==
    LET p == At(str, i)
        RECURSIVE scan(_, _)
        scan(q, lp) ==
            IF q < Len(work) /\ ULt(At(work, q), EMPTY_U32S)
                  /\ get_ptr(str, At(work, q)) = lp
            THEN scan(q - 1, lp)
            ELSE q
        moved(m, x, v) == [sa |-> Put(m.sa, x, v), p |-> m.p]
        release(q) ==
            IF ULt(EMPTY_U32S, At(work, q))
            THEN moved(sa_move(work, q + 1, q, neg32(At(work, q)), ptr),
                       p, EMPTY_U32S)
            ELSE [sa |-> work, p |-> ptr]
        put(w, c) ==
            IF At(w, p) = EMPTY_U32S
            THEN IF p + 1 >= Len(w) \/ At(w, p + 1) # EMPTY_U32S
                 THEN [sa |-> Put(w, p, i), p |-> c]
                 ELSE [sa |-> Put(Put(w, p, -1), p + 1, i), p |-> c]
            ELSE IF ULt(EMPTY_U32S, At(w, p))
            THEN IF p + 1 + neg32(At(w, p)) >= Len(w)
                    \/ At(w, p + 1 + neg32(At(w, p))) # EMPTY_U32S
                 THEN moved(sa_move(w, p + 1, p, neg32(At(w, p)), c),
                            p + neg32(At(w, p)), i)
                 ELSE [sa |-> Put(Put(w, p + 1 + neg32(At(w, p)), i),
                                  p, At(w, p) - 1),
                       p |-> c]
            ELSE [sa |-> w, p |-> c]
        after(r) == put(r.sa, r.p)
    IN after(IF ULt(At(work, p), EMPTY_U32S) /\ p > 0
                /\ p # get_ptr(str, At(work, p))
             THEN release(scan(p, get_ptr(str, At(work, p))))
             ELSE [sa |-> work, p |-> ptr])

\* insert_tail of sacak_u32s: [sa, p], the mirror image of insert_head
u32s_insert_tail(str, work, ptr, i) ==
    LET p == At(str, i)
        RECURSIVE scan(_, _)
        scan(q, rp) ==
            IF q < Len(work) /\ ULt(At(work, q), EMPTY_U32S)
                  /\ get_ptr(str, At(work, q)) = rp
            THEN scan(q + 1, rp)
            ELSE q
        moved(m, x, v) == [sa |-> Put(m.sa, x, v), p |-> m.p]
        release(q) ==
            IF ULt(EMPTY_U32S, At(work, q))
            THEN moved(sa_move(work, p, p + 1, neg32(At(work, q)), ptr),
                       p, EMPTY_U32S)
            ELSE [sa |-> work, p |-> ptr]
        put(w, c) ==
            IF At(w, p) = EMPTY_U32S
            THEN IF p <= 1 \/ At(w, p - 1) # EMPTY_U32S
                 THEN [sa |-> Put(w, p, i), p |-> c]
                 ELSE [sa |-> Put(Put(w, p, -1), p - 1, i), p |-> c]
            ELSE IF ULt(EMPTY_U32S, At(w, p))
            THEN IF p - 1 <= neg32(At(w, p))
                    \/ At(w, p - neg32(At(w, p)) - 1) # EMPTY_U32S
                 THEN moved(sa_move(w, p - neg32(At(w, p)),
                                    p - neg32(At(w, p)) + 1, neg32(At(w, p)), c),
                            p - neg32(At(w, p)), i)
                 ELSE [sa |-> Put(Put(w, p - neg32(At(w, p)) - 1, i),
                                  p, At(w, p) - 1),
                       p |-> c]
            ELSE [sa |-> w, p |-> c]
        after(r) == put(r.sa, r.p)
    IN after(IF ULt(At(work, p), EMPTY_U32S) /\ p > 0
                /\ p # get_ptr(str, At(work, p))
             THEN release(scan(p, get_ptr(str, At(work, p))))
             ELSE [sa |-> work, p |-> ptr])

\* finish_head: loop(w, p) is the rest of the loop for p in 1..sa.len()
u32s_finish_head(work) ==
    LET RECURSIVE loop(_, _)
        loop(w, p) ==
            IF p >= Len(w) THEN w
            ELSE IF ULt(EMPTY_U32S, At(w, p))
            THEN loop(Put(CopyWithin(w, p + 1, p, neg32(At(w, p))),
                          p + neg32(At(w, p)), EMPTY_U32S), p + 1)
            ELSE loop(w, p + 1)
    IN loop(work, 1)

\* finish_tail: loop(w, p) is the rest of the loop for p in (1..sa.len()).rev()
u32s_finish_tail(work) ==
    LET RECURSIVE loop(_, _)
        loop(w, p) ==
            IF p < 1 THEN w
            ELSE IF ULt(EMPTY_U32S, At(w, p))
            THEN loop(Put(CopyWithin(w, p - neg32(At(w, p)),
                                     p - neg32(At(w, p)) + 1, neg32(At(w, p))),
                          p - neg32(At(w, p)), EMPTY_U32S), p - 1)
            ELSE loop(w, p - 1)
    IN loop(work, Len(work) - 1)

\* clear_lms: mark is the first loop (mark and count the lms characters), fill
\* the second (fill EMPTY)
u32s_clear_lms(str, work) ==
    LET RECURSIVE mark(_, _)
        mark(w, calls) ==
            IF calls = <<>> THEN w
            ELSE mark(IF ULt(EMPTY_U32S, At(w, Head(calls)[2]))
                      THEN Put(w, Head(calls)[2], At(w, Head(calls)[2]) - 1)
                      ELSE Put(w, Head(calls)[2], -1),
                      Tail(calls))
        RECURSIVE fill(_, _)
        fill(w, p) ==
            IF p < 1 THEN w
            ELSE IF ULt(EMPTY_U32S, At(w, p))
            THEN fill(FillRange(w, p + 1 - neg32(At(w, p)), p + 1, EMPTY_U32S),
                      p - 1)
            ELSE fill(w, p - 1)
    IN fill(mark(work, for_each_lms(str, FALSE)), Len(work) - 1)

\* induce_by_lms of sacak_u32s, one turn of the while loop of step 1 with
\* the cursor at p: [sa, p, at, call], p the cursor after the turn, at the
\* cursor after the insertion, before its own move p += 1, call the index
\* handed to insert_head (NoEntry when it is not called)
u32s_step_l(str, w, p) ==
    LET moved(r, c) == [sa |-> r.sa, p |-> r.p + 1, at |-> r.p, call |-> c]
    IN IF ULt(At(w, p), EMPTY_U32S)
                /\ (At(w, p) = Len(str)
                    \/ (At(w, p) > 0
                        /\ At(str, At(w, p) - 1) >= At(str, At(w, p))))
             THEN moved(u32s_insert_head(str, w, p, At(w, p) - 1), At(w, p) - 1)
             ELSE moved([sa |-> w, p |-> p], NoEntry)

\* one turn of the while loop of step 3
u32s_step_s(str, w, p) ==
    LET moved(r, c) == [sa |-> r.sa, p |-> r.p - 1, at |-> r.p, call |-> c]
    IN IF ULt(At(w, p), EMPTY_U32S) /\ At(w, p) > 0
                /\ get_ptr(str, At(w, p) - 1) <= get_ptr(str, At(w, p))
             THEN moved(u32s_insert_tail(str, w, p, At(w, p) - 1), At(w, p) - 1)
             ELSE moved([sa |-> w, p |-> p], NoEntry)

\* induce_by_lms of sacak_u32s.  scan_l is step 1, the scan that induces the
\* l-type positions; scan_s is step 3, the scan that induces the s-type
\* positions
u32s_induce_by_lms(str, work) ==
    LET RECURSIVE scan_l(_)
        scan_l(r) ==
            IF r.p < Len(r.sa) THEN scan_l(u32s_step_l(str, r.sa, r.p)) ELSE r.sa
        RECURSIVE scan_s(_)
        scan_s(r) ==
            IF r.p > 0 THEN scan_s(u32s_step_s(str, r.sa, r.p)) ELSE r.sa
        from_end(w) == scan_s([sa |-> w, p |-> Len(w) - 1])
    IN u32s_finish_tail(
           from_end(u32s_clear_lms(str,
               u32s_finish_head(scan_l([sa |-> work, p |-> 0])))))

\* sort_lms_suffixes of sacak_u32s, step 1: the workspace with the lms
\* positions in their bucket tails and the sentinel in cell 0
u32s_seed_lms(str, work) ==
    LET RECURSIVE place(_, _)
        place(w, calls) ==
            IF calls = <<>> THEN w
            ELSE place(u32s_insert_tail(str, w, NoCursor, Head(calls)[1]).sa,
                       Tail(calls))
    IN u32s_finish_tail(
           Put(place(Fill(Len(work), EMPTY_U32S), for_each_lms(str, FALSE)),
               0, Len(str)))

\* sort_lms_suffixes, step 3, on the workspace w the induction left: [sa, h].
\* collect is the loop that gathers the sorted lms substrings at the end of
\* the workspace
u32s_collect(str, w0) ==
    LET RECURSIVE collect(_, _, _, _, _)
        collect(w, p, h, q, t) ==
            IF p < 1 THEN [sa |-> Put(w, h - 1, At(w, 0)), h |-> h - 1]
            ELSE LET i == At(w, p)
                     new == At(str, i) # q
                     t1 == IF new
                           THEN i < Len(str) - 1 /\ At(str, i) < At(str, i + 1)
                           ELSE t
                     q1 == IF new THEN At(str, i) ELSE q
                 IN IF t1 /\ i > 0 /\ At(str, i - 1) > At(str, i)
                    THEN collect(Put(w, h - 1, At(w, p)), p - 1, h - 1, q1, t1)
                    ELSE collect(w, p - 1, h, q1, t1)
    IN collect(w0, Len(w0) - 1, Len(w0), Len(str) + 1, FALSE)

\* sort_lms_suffixes, steps 1 to 3: [sa, h]
u32s_collect_lms(str, work) ==
    u32s_collect(str, u32s_induce_by_lms(str, u32s_seed_lms(str, work)))

\* sort_lms_suffixes, step 5 with the fill that precedes it: the cells from n on are set to EMPTY and
\* the n sorted lms suffixes at the start of w go to their buckets;
\* place_sorted is the loop for l in (1..n).rev()
u32s_place(str, w0, n) ==
    LET RECURSIVE place_sorted(_, _, _, _)
        place_sorted(w, l, r, q) ==
            IF l < 1 THEN w
            ELSE LET p == get_ptr(str, At(w, l - 1))
                     m == r - l
                     t == q + 1 - m
                 IN IF p = q THEN place_sorted(w, l - 1, r, q)
                    ELSE IF m = 1
                    THEN place_sorted(Put(Put(w, l, EMPTY_U32S), q, At(w, l)),
                                      l - 1, l, p)
                    ELSE place_sorted(
                             FillRange(CopyWithin(w, l, t, m), l, Min2(r, t),
                                       EMPTY_U32S),
                             l - 1, l, p)
        placed(w) ==
            IF n > 1 THEN place_sorted(w, n - 1, n, At(str, At(w, n - 1))) ELSE w
    IN placed(FillRange(w0, n, Len(w0), EMPTY_U32S))

\* sort_lms_suffixes of sacak_u32s from the split of the workspace on, cl0 = [sa, h]:
\* the renaming, the sub-problem and the rearrangement of suffixes_from_substrs, then the placement
u32s_place_sorted(str, cl0) ==
    LET reduced(sf) == u32s_place(str, sf.head \o sf.tail, Len(cl0.sa) - cl0.h)
    IN reduced(suffixes_from_substrs(str, Slice(cl0.sa, 0, cl0.h),
                                     Slice(cl0.sa, cl0.h, Len(cl0.sa)), "sacak_u32s"))

\* sort_lms_suffixes
u32s_sort_lms_suffixes(str, work) ==
    u32s_place_sorted(str, u32s_collect_lms(str, work))

\* sacak_u32s: [s, sa], the string as transformed and the finished array
sacak_u32s(str, kk, work) ==
    LET induced(tr) ==
            [s |-> tr.s,
             sa |-> u32s_induce_by_lms(tr.s, u32s_sort_lms_suffixes(tr.s, tr.sa))]
    IN IF Len(str) = 0 THEN [s |-> str, sa |-> Put(work, 0, 0)]
       ELSE induced(transform_string(str, kk, work))

\* sacak1, the inner-level engine level 0 recurses into: the engine the tree
\* carries as sacak_u32s
sacak1(str, kk, work) == sacak_u32s(str, kk, work)

\* naive suffix sort: the array listing 0..=n by ascending suffix
naive_sort(str) ==
    LET n == Len(str)
        rank(i) == Cardinality({j \in 0..n : SeqLess(Suffix(str, j), Suffix(str, i))})
    IN Tup([r \in 1..(n + 1) |-> CHOOSE i \in 0..n : rank(i) = r - 1], n + 1)

(***************************************************************************)
(* construct/llhsais/mod.rs : the in-place engine with UNIQUE/MULTI marks. *)
(* A MULTI bucket keeps its counter in the cell next to the mark.          *)
(***************************************************************************)
\* 0xffffffff, 0xfffffffe, 0xfffffffd
EMPTY_LLH == -1
UNIQUE == -2
MULTI == -3
MIN_SYMBOL == -3

\* the calls f(i, t, c) of for_each_typed: every position from the right with
\* its type (TRUE for s-type) and its character
for_each_typed(str) ==
    LET RECURSIVE loop(_, _)
        loop(i, t) ==
            IF i < 0 THEN <<>>
            ELSE LET c == At(str, i)
                     t1 == IF i = Len(str) - 1 THEN FALSE
                           ELSE IF c < At(str, i + 1) THEN TRUE
                           ELSE IF c > At(str, i + 1) THEN FALSE ELSE t
                 IN << <<i, t1, c>> >> \o loop(i - 1, t1)
    IN loop(Len(str) - 1, FALSE)

\* prepare_typed: mark is match sa[p] { EMPTY => UNIQUE, UNIQUE => MULTI, _ => () }
prepare_typed(str, work, t) ==
    LET mark(w, p) ==
            IF At(w, p) = EMPTY_LLH THEN Put(w, p, UNIQUE)
            ELSE IF At(w, p) = UNIQUE THEN Put(w, p, MULTI)
            ELSE w
        RECURSIVE loop(_, _)
        loop(w, calls) ==
            IF calls = <<>> THEN w
            ELSE loop(IF Head(calls)[2] = t THEN mark(w, Head(calls)[3]) ELSE w,
                      Tail(calls))
    IN loop(work, for_each_typed(str))

\* prepare_lms
prepare_lms(str, work) ==
    LET mark(w, p) ==
            IF At(w, p) = EMPTY_LLH THEN Put(w, p, UNIQUE)
            ELSE IF At(w, p) = UNIQUE THEN Put(w, p, MULTI)
            ELSE w
        RECURSIVE loop(_, _)
        loop(w, calls) ==
            IF calls = <<>> THEN w
            ELSE loop(mark(w, Head(calls)[2]), Tail(calls))
    IN loop(work, for_each_lms(str, TRUE))

\* clear_lms: mark is the first loop (mark and count the lms characters), fill
\* the second (fill EMPTY)
llh_clear_lms(str, work) ==
    LET RECURSIVE mark(_, _)
        mark(w, calls) ==
            IF calls = <<>> THEN w
            ELSE LET p == Head(calls)[2]
                 IN mark(IF At(w, p) = UNIQUE THEN Put(Put(w, p, MULTI), p - 1, 2)
                         ELSE IF At(w, p) = MULTI
                         THEN Put(w, p - 1, At(w, p - 1) + 1)
                         ELSE Put(w, p, UNIQUE),
                         Tail(calls))
        RECURSIVE fill(_, _)
        fill(w, p) ==
            IF p < 1 THEN w
            ELSE IF At(w, p) = UNIQUE THEN fill(Put(w, p, EMPTY_LLH), p - 1)
            ELSE IF At(w, p) = MULTI
            THEN fill(FillRange(w, p + 1 - At(w, p - 1), p + 1, EMPTY_LLH), p - 1)
            ELSE fill(w, p - 1)
    IN fill(mark(work, for_each_lms(str, FALSE)), Len(work) - 1)

\* insert_head of llhsais: [sa, p], p the cursor after the insertion.  scan is
\* the loop of the last arm looking for the first free cell of the bucket, and
\* put_at its write, done only if the scan stopped at an EMPTY cell
llh_insert_head(str, work, ptr, i) ==
    LET p == At(str, i)
        RECURSIVE scan(_)
        scan(q) ==
            IF q < Len(work) /\ ULt(At(work, q), MIN_SYMBOL)
                  /\ get_ptr(str, At(work, q)) = p
            THEN scan(q + 1)
            ELSE q
        put_at(q) ==
            IF q < Len(work) /\ At(work, q) = EMPTY_LLH
            THEN [sa |-> Put(work, q, i), p |-> ptr]
            ELSE [sa |-> work, p |-> ptr]
    IN IF At(work, p) = UNIQUE THEN [sa |-> Put(work, p, i), p |-> ptr]
       ELSE IF At(work, p) = MULTI /\ At(work, p + 1) = EMPTY_LLH
       THEN IF p + 2 < Len(work) /\ At(work, p + 2) = EMPTY_LLH
            THEN [sa |-> Put(Put(work, p + 1, 1), p + 2, i), p |-> ptr]
            ELSE [sa |-> Put(Put(work, p, i), p + 1, EMPTY_LLH), p |-> ptr]
       ELSE IF At(work, p) = MULTI /\ At(work, p + 1) # EMPTY_LLH
       THEN LET n == At(work, p + 1)
            IN IF p + n + 2 < Len(work) /\ At(work, p + n + 2) = EMPTY_LLH
               THEN [sa |-> Put(Put(work, p + 1, n + 1), p + n + 2, i), p |-> ptr]
               ELSE [sa |-> Put(Put(CopyWithin(work, p + 2, p, n), p + n, i),
                                p + n + 1, EMPTY_LLH),
                     p |-> IF ptr # NoCursor /\ ptr >= p + 2 /\ ptr < p + n + 2
                           THEN ptr - 2 ELSE ptr]
       ELSE IF At(work, p) # EMPTY_LLH THEN put_at(scan(p))
       ELSE [sa |-> work, p |-> ptr]

\* insert_tail of llhsais: [sa, p], the mirror image of insert_head; the scan
\* stops before the cell 0
llh_insert_tail(str, work, ptr, i) ==
    LET p == At(str, i)
        RECURSIVE scan(_)
        scan(q) ==
            IF q >= 1 /\ q < Len(work) /\ ULt(At(work, q), MIN_SYMBOL)
                  /\ get_ptr(str, At(work, q)) = p
            THEN scan(q - 1)
            ELSE q
        put_at(q) ==
            IF q >= 1 /\ q < Len(work) /\ At(work, q) = EMPTY_LLH
            THEN [sa |-> Put(work, q, i), p |-> ptr]
            ELSE [sa |-> work, p |-> ptr]
    IN IF At(work, p) = UNIQUE THEN [sa |-> Put(work, p, i), p |-> ptr]
       ELSE IF At(work, p) = MULTI /\ At(work, p - 1) = EMPTY_LLH
       THEN IF p >= 2 /\ At(work, p - 2) = EMPTY_LLH
            THEN [sa |-> Put(Put(work, p - 1, 1), p - 2, i), p |-> ptr]
            ELSE [sa |-> Put(Put(work, p, i), p - 1, EMPTY_LLH), p |-> ptr]
       ELSE IF At(work, p) = MULTI /\ At(work, p - 1) # EMPTY_LLH
       THEN LET n == At(work, p - 1)
            IN IF p >= n + 2 /\ At(work, p - n - 2) = EMPTY_LLH
               THEN [sa |-> Put(Put(work, p - 1, n + 1), p - n - 2, i), p |-> ptr]
               ELSE [sa |-> Put(Put(CopyWithin(work, p - n - 1, p - n + 1, n),
                                    p - n, i), p - n - 1, EMPTY_LLH),
                     p |-> IF ptr # NoCursor /\ ptr <= p - 2 /\ ptr > p - n - 2
                           THEN ptr + 2 ELSE ptr]
       ELSE IF At(work, p) # EMPTY_LLH THEN put_at(scan(p))
       ELSE [sa |-> work, p |-> ptr]

\* finish_tail of llhsais: loop(w, p) is the rest of for p in (0..sa.len()).rev()
llh_finish_tail(work) ==
    LET RECURSIVE loop(_, _)
        loop(w, p) ==
            IF p < 0 THEN w
            ELSE IF At(w, p) = MULTI
            THEN LET n == At(w, p - 1)
                 IN loop(Put(Put(CopyWithin(w, p - n - 1, p - n + 1, n),
                                 p - n, EMPTY_LLH), p - n - 1, EMPTY_LLH),
                         p - 1)
            ELSE loop(w, p - 1)
    IN loop(work, Len(work) - 1)

\* a finish_head that leaves the MULTI blocks as they are
llh_finish_head_kept(work) == work

\* finish_head of llhsais: loop(w, p) is the rest of for p in 0..sa.len()
llh_finish_head(work) ==
    LET RECURSIVE loop(_, _)
        loop(w, p) ==
            IF p >= Len(w) THEN w
            ELSE IF At(w, p) = MULTI
            THEN LET n == At(w, p + 1)
                 IN loop(Put(Put(CopyWithin(w, p + 2, p, n), p + n, EMPTY_LLH),
                             p + n + 1, EMPTY_LLH),
                         p + 1)
            ELSE loop(w, p + 1)
    IN loop(work, 0)

\* induce_by_lms of llhsais, one turn of the while loop of step 1 with the
\* cursor at p: [sa, p, at, call], p the cursor after the turn, at the cursor
\* after the insertion, before its own move p += 1 (NoCursor when a MULTI
\* mark and its counter are stepped over), call the index handed to
\* insert_head (NoEntry when it is not called)
llh_step_l(str, w, p) ==
    LET moved(r, c) == [sa |-> r.sa, p |-> r.p + 1, at |-> r.p, call |-> c]
    IN IF At(w, p) = MULTI THEN [sa |-> w, p |-> p + 2, at |-> NoCursor,
                                 call |-> NoEntry]
       ELSE IF At(w, p) # EMPTY_LLH /\ At(w, p) # UNIQUE
                     /\ (At(w, p) = Len(str)
                         \/ (At(w, p) > 0
                             /\ At(str, At(w, p) - 1) >= At(str, At(w, p))))
                  THEN moved(llh_insert_head(str, w, p, At(w, p) - 1), At(w, p) - 1)
                  ELSE moved([sa |-> w, p |-> p], NoEntry)

\* one turn of the while loop of step 3
llh_step_s(str, w, p) ==
    LET moved(r, c) == [sa |-> r.sa, p |-> r.p - 1, at |-> r.p, call |-> c]
    IN IF At(w, p) = MULTI THEN [sa |-> w, p |-> p - 2, at |-> NoCursor,
                                 call |-> NoEntry]
       ELSE IF At(w, p) # EMPTY_LLH /\ At(w, p) # UNIQUE
                     /\ At(w, p) > 0
                     /\ get_ptr(str, At(w, p) - 1) <= get_ptr(str, At(w, p))
                  THEN moved(llh_insert_tail(str, w, p, At(w, p) - 1), At(w, p) - 1)
                  ELSE moved([sa |-> w, p |-> p], NoEntry)

\* induce_by_lms of llhsais.  scan_l is the scan that induces the l-type
\* positions, scan_s the scan that induces the s-type positions
llh_induce_by_lms(str, work) ==
    LET RECURSIVE scan_l(_)
        scan_l(r) == IF r.p < Len(r.sa) THEN scan_l(llh_step_l(str, r.sa, r.p)) ELSE r.sa
        RECURSIVE scan_s(_)
        scan_s(r) == IF r.p > 0 THEN scan_s(llh_step_s(str, r.sa, r.p)) ELSE r.sa
        from_end(w) == scan_s([sa |-> w, p |-> Len(w) - 1])
    IN llh_finish_tail(
           from_end(prepare_typed(str,
               llh_clear_lms(str,
                   llh_finish_head(
                       scan_l([sa |-> prepare_typed(str, work, FALSE), p |-> 0]))),
               TRUE)))

\* sort_lms_suffixes of llhsais, step 1: the workspace with the lms positions
\* in their bucket tails and the sentinel in cell 0
llh_seed_lms(str, work) ==
    LET RECURSIVE place(_, _)
        place(w, calls) ==
            IF calls = <<>> THEN w
            ELSE place(llh_insert_tail(str, w, NoCursor, Head(calls)[1]).sa,
                       Tail(calls))
    IN llh_finish_tail(
           Put(place(prepare_lms(str, Fill(Len(work), EMPTY_LLH)),
                     for_each_lms(str, FALSE)), 0, Len(str)))

\* sort_lms_suffixes, step 3, on the workspace w the induction left: [sa, h].
\* collect is the loop that gathers the sorted lms substrings at the end of
\* the workspace
llh_collect(str, w0) ==
    LET RECURSIVE collect(_, _, _, _, _)
        collect(w, p, h, q, t) ==
            IF p < 1 THEN [sa |-> Put(w, h - 1, At(w, 0)), h |-> h - 1]
            ELSE LET i == At(w, p)
                     new == At(str, i) # q
                     t1 == IF new
                           THEN i < Len(str) - 1 /\ At(str, i) < At(str, i + 1)
                           ELSE t
                     q1 == IF new THEN At(str, i) ELSE q
                 IN IF t1 /\ i > 0 /\ At(str, i - 1) > At(str, i)
                    THEN collect(Put(w, h - 1, At(w, p)), p - 1, h - 1, q1, t1)
                    ELSE collect(w, p - 1, h, q1, t1)
    IN collect(w0, Len(w0) - 1, Len(w0), Len(str) + 1, FALSE)

\* sort_lms_suffixes, steps 1 to 3: [sa, h]
llh_collect_lms(str, work) ==
    llh_collect(str, llh_induce_by_lms(str, llh_seed_lms(str, work)))

\* sort_lms_suffixes, step 6: the cells from n on are set to EMPTY and
\* the n sorted lms suffixes at the start of w go to their buckets;
\* place_sorted is the loop for l in (1..n).rev()
llh_place(str, w0, n) ==
    LET RECURSIVE place_sorted(_, _, _, _)
        place_sorted(w, l, r, q) ==
            IF l < 1 THEN w
            ELSE LET p == get_ptr(str, At(w, l - 1))
                     m == r - l
                     t == q + 1 - m
                 IN IF p = q THEN place_sorted(w, l - 1, r, q)
                    ELSE IF m = 1
                    THEN place_sorted(Put(Put(w, l, EMPTY_LLH), q, At(w, l)),
                                      l - 1, l, p)
                    ELSE place_sorted(
                             FillRange(CopyWithin(w, l, t, m), l, Min2(r, t),
                                       EMPTY_LLH),
                             l - 1, l, p)
        placed(w) ==
            IF n > 1 THEN place_sorted(w, n - 1, n, At(str, At(w, n - 1))) ELSE w
    IN placed(FillRange(w0, n, Len(w0), EMPTY_LLH))

\* sort_lms_suffixes of llhsais from the split of the workspace on, cl0 = [sa, h]:
\* the renaming, the sub-problem and the rearrangement (which the source has in line), then the placement
llh_place_sorted(str, cl0) ==
    LET reduced(sf) == llh_place(str, sf.head \o sf.tail, Len(cl0.sa) - cl0.h)
    IN reduced(suffixes_from_substrs(str, Slice(cl0.sa, 0, cl0.h),
                                     Slice(cl0.sa, cl0.h, Len(cl0.sa)), "llhsais"))

\* sort_lms_suffixes
llh_sort_lms_suffixes(str, work) ==
    llh_place_sorted(str, llh_collect_lms(str, work))

\* llhsais: [s, sa], the string as transformed and the finished array
llhsais(str, kk, work) ==
    LET induced(tr) ==
            [s |-> tr.s,
             sa |-> llh_induce_by_lms(tr.s, llh_sort_lms_suffixes(tr.s, tr.sa))]
    IN IF Len(str) = 0 THEN [s |-> str, sa |-> Put(work, 0, 0)]
       ELSE induced(transform_string(str, kk, work))

\* sais_ints_mut, the inner-level engine sais_bytes recurses into: the engine of
\* Li, Li and Huo the tree carries as llhsais
sais_ints_mut(str, kk, work) == llhsais(str, kk, work)
(***************************************************************************)
(* construct/sacak/bucket.rs and construct/sacak0/mod.rs : recursion       *)
(* level 0 over a read-only byte string, with the 256-entry bucket array.  *)
(* A bucket array is the record [bounds, ps, qs]; the operations that      *)
(* write both the workspace and the bucket array return [sa, bkt].         *)
(***************************************************************************)
\* 0xffffffff, the empty symbol of the level-0 workspace
EMPTY == -1

get_tail_ptr(b, c) == At(b.bounds, c + 1)
\* a get_l_ptr that returns the tail of the bucket
get_l_ptr_tail(b, c) == At(b.bounds, c + 1)
get_l_ptr(b, c) == At(b.ps, c)
get_s_ptr(b, c) == At(b.qs, c)
reset_l_ptrs(b) == [b EXCEPT !.ps = Slice(b.bounds, 0, 256)]
\* a reset_s_ptrs that copies the bucket heads
reset_s_ptrs_heads(b) == [b EXCEPT !.qs = Slice(b.bounds, 0, 256)]
reset_s_ptrs(b) == [b EXCEPT !.qs = Slice(b.bounds, 1, 257)]

\* Bucket::compute; the prefix sums leave in bounds[c] 1 + the number of
\* characters below c
Bucket_compute(str) ==
    reset_s_ptrs(reset_l_ptrs(
        [bounds |-> Tup([j \in 1..257 |->
                            1 + Cardinality({x \in 1..Len(str) : str[x] < j - 1})],
                        257),
         ps |-> Fill(256, 0),
         qs |-> Fill(256, 0)]))

\* insert_head that forgets to advance the l-pointer
Bucket_insert_head_stuck(b, str, work, i) ==
    [sa |-> Put(work, At(b.ps, At(str, i)), i), bkt |-> b,
     at |-> At(b.ps, At(str, i))]

\* Bucket::insert_head: [sa, bkt, at], at the cell written
Bucket_insert_head(b, str, work, i) ==
    LET c == At(str, i)
    IN [sa |-> Put(work, At(b.ps, c), i),
        bkt |-> [b EXCEPT !.ps = Put(b.ps, c, At(b.ps, c) + 1)],
        at |-> At(b.ps, c)]

\* insert_tail that forgets to move the s-pointer back
Bucket_insert_tail_stuck(b, str, work, i) ==
    [sa |-> Put(work, At(b.qs, At(str, i)) - 1, i), bkt |-> b,
     at |-> At(b.qs, At(str, i)) - 1]

\* what a cell outside the workspace holds
NoCell == -2

\* what the loops of level 0 keep of an insertion x of position i into the
\* workspace before: the cell written, what it held, and the bounds and the
\* pointers of the bucket of s[i] after the insertion
write_of(before, str, x, i) ==
    [cell |-> x.at, pos |-> i,
     old |-> IF x.at >= 0 /\ x.at < Len(before) THEN At(before, x.at) ELSE NoCell,
     lo |-> At(x.bkt.bounds, At(str, i)), p |-> At(x.bkt.ps, At(str, i)),
     q |-> At(x.bkt.qs, At(str, i)), hi |-> At(x.bkt.bounds, At(str, i) + 1)]

\* the loop state [sa, bkt, wr] after the insertion x: wr is the set of the
\* insertions the loop has made
logged(wr, before, str, x, i) ==
    [sa |-> x.sa, bkt |-> x.bkt, wr |-> wr \cup {write_of(before, str, x, i)}]

\* Bucket::insert_tail: [sa, bkt, at], at the cell written
Bucket_insert_tail(b, str, work, i) ==
    LET c == At(str, i)
        q == At(b.qs, c) - 1
    IN [sa |-> Put(work, q, i), bkt |-> [b EXCEPT !.qs = Put(b.qs, c, q)],
        at |-> q]

\* a clear_tails that clears the whole of every bucket
Bucket_clear_tails_whole(b, work) ==
    [sa |-> [j \in 1..Len(work) |-> IF j = 1 THEN work[j] ELSE EMPTY],
     bkt |-> reset_s_ptrs(b)]

\* Bucket::clear_tails.  loop(w, cs) is the loop for c in 0..=255 at the
\* characters cs left; it starts from the characters whose range q..t is not
\* empty, the iteration does nothing at the others
Bucket_clear_tails(b, work) ==
    LET RECURSIVE loop(_, _)
        clear(w, cs, c) ==
            loop(FillRange(w, get_s_ptr(b, c), get_tail_ptr(b, c), EMPTY), cs \ {c})
        loop(w, cs) ==
            IF cs = {} THEN w
            ELSE clear(w, cs, CHOOSE c \in cs : \A d \in cs : c <= d)
    IN [sa |-> loop(work, {c \in 0..255 : get_s_ptr(b, c) < get_tail_ptr(b, c)}),
        bkt |-> reset_s_ptrs(b)]

\* an induce_l that takes a position for L-type only when its character is
\* above the next one
induce_l_strict(b, str, work) ==
    LET RECURSIVE loop(_, _)
        loop(r, i) ==
            IF i >= Len(r.sa) THEN r
            ELSE IF At(r.sa, i) = EMPTY \/ At(r.sa, i) = 0 THEN loop(r, i + 1)
            ELSE IF At(r.sa, i) = Len(str)
                    \/ At(str, At(r.sa, i) - 1) > At(str, At(r.sa, i))
            THEN loop(logged(r.wr, r.sa, str,
                             Bucket_insert_head(r.bkt, str, r.sa, At(r.sa, i) - 1),
                             At(r.sa, i) - 1),
                      i + 1)
            ELSE loop(r, i + 1)
    IN loop([sa |-> work, bkt |-> b, wr |-> {}], 0)

\* induce_by_lms, step 1: loop(r, i) is the rest of for i in 0..sa.len()
induce_l(b, str, work) ==
    LET RECURSIVE loop(_, _)
        loop(r, i) ==
            IF i >= Len(r.sa) THEN r
            ELSE IF At(r.sa, i) = EMPTY \/ At(r.sa, i) = 0 THEN loop(r, i + 1)
            ELSE IF At(r.sa, i) = Len(str)
                    \/ At(str, At(r.sa, i) - 1) >= At(str, At(r.sa, i))
            THEN loop(logged(r.wr, r.sa, str,
                             Bucket_insert_head(r.bkt, str, r.sa, At(r.sa, i) - 1),
                             At(r.sa, i) - 1),
                      i + 1)
            ELSE loop(r, i + 1)
    IN loop([sa |-> work, bkt |-> b, wr |-> {}], 0)

\* induce_by_lms, step 3: loop(r, i) is the rest of for i in (1..sa.len()).rev().
\* Beside the workspace, the bucket array and the insertions made the result
\* carries eq, the set
\* of <<i, j, p>> the scan met with s[j - 1] = s[j]: the cell, the position it
\* holds and the l-pointer of the character read by the test
induce_s(b, str, work) ==
    LET traced(x, seen) == [sa |-> x.sa, bkt |-> x.bkt, wr |-> x.wr, eq |-> seen]
        RECURSIVE loop(_, _)
        loop(r, i) ==
            IF i < 1 THEN r
            ELSE IF At(r.sa, i) = EMPTY \/ At(r.sa, i) = 0 THEN loop(r, i - 1)
            ELSE LET j == At(r.sa, i)
                     seen == IF At(str, j - 1) = At(str, j)
                             THEN r.eq \cup {<<i, j, get_l_ptr(r.bkt, At(str, j))>>}
                             ELSE r.eq
                 IN IF At(str, j - 1) < At(str, j)
                       \/ (At(str, j - 1) = At(str, j)
                           /\ get_l_ptr(r.bkt, At(str, j)) < i)
                    THEN loop(traced(logged(r.wr, r.sa, str,
                                            Bucket_insert_tail(r.bkt, str, r.sa,
                                                               j - 1),
                                            j - 1),
                                     seen),
                              i - 1)
                    ELSE loop(traced(r, seen), i - 1)
    IN loop([sa |-> work, bkt |-> b, wr |-> {}, eq |-> {}], Len(work) - 1)

\* induce_by_lms of level 0
induce_by_lms(b, str, work) ==
    The({induce_s(c.bkt, str, c.sa) :
            c \in {Bucket_clear_tails(r.bkt, r.sa) : r \in {induce_l(b, str, work)}}})

\* sort_lms_suffixes, step 1: the fill with EMPTY, insert_tail of every lms
\* position, and the sentinel written to sa[0]
seed_lms(b, str, work) ==
    LET RECURSIVE place(_, _)
        place(r, calls) ==
            IF calls = <<>> THEN r
            ELSE place(logged(r.wr, r.sa, str,
                              Bucket_insert_tail(r.bkt, str, r.sa, Head(calls)[1]),
                              Head(calls)[1]),
                       Tail(calls))
        sentinel(r) == [sa |-> Put(r.sa, 0, Len(str)), bkt |-> r.bkt, wr |-> r.wr]
    IN sentinel(place([sa |-> Fill(Len(work), EMPTY), bkt |-> b, wr |-> {}],
                      for_each_lms(str, FALSE)))

\* sort_lms_suffixes, step 3: [sa, h].  outer(r, cs) is the loop for c in
\* (0..=255).rev() at the characters cs left, inner(r, i, q) the loop for i in
\* (q..t).rev(); r = [sa, h]
collect(b, str, work) ==
    LET RECURSIVE inner(_, _, _)
        inner(r, i, q) ==
            IF i < q THEN r
            ELSE IF At(r.sa, i) > 0
                    /\ At(str, At(r.sa, i) - 1) > At(str, At(r.sa, i))
            THEN inner([sa |-> Put(r.sa, r.h - 1, At(r.sa, i)), h |-> r.h - 1],
                       i - 1, q)
            ELSE inner(r, i - 1, q)
        RECURSIVE outer(_, _)
        bucket_of(r, cs, c) ==
            outer(inner(r, get_tail_ptr(b, c) - 1, get_s_ptr(b, c)), cs \ {c})
        outer(r, cs) ==
            IF cs = {} THEN [sa |-> Put(r.sa, r.h - 1, At(r.sa, 0)), h |-> r.h - 1]
            ELSE bucket_of(r, cs, CHOOSE c \in cs : \A d \in cs : d <= c)
    IN outer([sa |-> work, h |-> Len(work)],
             {c \in 0..255 : get_s_ptr(b, c) < get_tail_ptr(b, c)})

\* sort_lms_suffixes, step 4: suffixes_from_substrs on the halves split at h,
\* then the fill of sa[n..] with EMPTY: the workspace
reduce(str, work, h, sort) ==
    LET refill(sf) == FillRange(sf.head \o sf.tail, Len(work) - h, Len(work), EMPTY)
    IN refill(suffixes_from_substrs(str, Slice(work, 0, h),
                                    Slice(work, h, Len(work)), sort))

\* sort_lms_suffixes, step 5, on the workspace whose first n cells hold the
\* sorted lms suffixes; loop(r, i) is the rest of for i in (1..n).rev()
place_sorted(b, str, work, n) ==
    LET RECURSIVE loop(_, _)
        loop(r, i) ==
            IF i < 1 THEN r
            ELSE loop(logged(r.wr, Put(r.sa, i, EMPTY), str,
                             Bucket_insert_tail(r.bkt, str, Put(r.sa, i, EMPTY),
                                                At(r.sa, i)),
                             At(r.sa, i)),
                      i - 1)
    IN loop([sa |-> work, bkt |-> reset_s_ptrs(reset_l_ptrs(b)), wr |-> {}], n - 1)

\* sort_lms_suffixes of level 0
sort_lms_suffixes(b, str, work, sort) ==
    LET collected(w) == {[bkt |-> w.bkt, sa |-> cl.sa, h |-> cl.h] :
                            cl \in {collect(w.bkt, str, w.sa)}}
        reduced(w) == {[bkt |-> w.bkt, sa |-> rd, n |-> Len(w.sa) - w.h] :
                          rd \in {reduce(str, w.sa, w.h, sort)}}
        seeded == {induce_by_lms(w.bkt, str, w.sa) : w \in {seed_lms(b, str, work)}}
    IN The({place_sorted(w.bkt, str, w.sa, w.n) :
               w \in UNION {reduced(cl) : cl \in UNION {collected(w) : w \in seeded}}})

\* the body shared by sacak0 and sais_bytes: the finished array
level0(str, work, sort) ==
    IF Len(str) = 0 THEN Put(work, 0, 0)
    ELSE The({induce_by_lms(r.bkt, str, r.sa).sa :
                 r \in {sort_lms_suffixes(b, str, work, sort) :
                            b \in {Bucket_compute(str)}}})

\* sacak0 recurses into sacak1, sais_bytes into sais_ints_mut
sacak0(str, work) == level0(str, work, "sacak1")
sais_bytes(str, work) == level0(str, work, "sais_ints_mut")
(***************************************************************************)
(* Lengths as the entry points see them.  A slice may be longer than any   *)
(* integer the model checker holds, so a length is the pair of its 16-bit  *)
(* halves <<high, low>>; only such a length can exceed MAX_LENGTH.         *)
(***************************************************************************)
Wide(n) == <<n \div 65536, n % 65536>>
WideLe(a, b) == a[1] < b[1] \/ (a[1] = b[1] /\ a[2] <= b[2])
WideSucc(a) == IF a[2] = 65535 THEN <<a[1] + 1, 0>> ELSE <<a[1], a[2] + 1>>

\* construct::MAX_LENGTH = sacak0::MAX_LENGTH = 0xfffffffc
MAX_LENGTH == <<65535, 65532>>
\* saca::MAX_LENGTH = i32::MAX
MAX_LENGTH_DSS == <<32767, 65535>>

\* an entry that keeps the assertion on the workspace only
saca_asserts_workspace(max, n, m) == WideSucc(n) = m

\* the two assertions at the entry of saca
saca_asserts(max, n, m) == WideLe(n, max) /\ WideSucc(n) = m

\* cdivsufsort::sort_in_place: the positions 0..n-1 by ascending suffix
dss(str) ==
    LET n == Len(str)
        rank(i) == Cardinality({j \in 0..(n - 1) :
                                   SeqLess(Suffix(str, j), Suffix(str, i))})
    IN Tup([r \in 1..n |-> CHOOSE i \in 0..(n - 1) : rank(i) = r - 1], n)

(***************************************************************************)
(* utils.rs and sa.rs / lib.rs : searching the finished array.  sa.rs is   *)
(* lib.rs with the optional bucket table; without a table its searches run *)
(* over the whole array as those of lib.rs do.  The table has 256*257+1    *)
(* cells, almost all equal to their left neighbour after the prefix sums:  *)
(* it is held as the set of steps <<cell, value>>, one for cell 0 and one  *)
(* for every cell that counted a position; None is the empty set.          *)
(***************************************************************************)
\* a common_prefix that stops behind the first byte
common_prefix_short(xs, ys) ==
    IF Len(xs) > 0 /\ Len(ys) > 0 /\ xs[1] = ys[1] THEN 1 ELSE 0

\* utils::common_prefix (imported as lcp): length of the longest common prefix
common_prefix(xs, ys) ==
    LET RECURSIVE loop(_)
        loop(j) ==
            IF j <= Len(xs) /\ j <= Len(ys) /\ xs[j] = ys[j] THEN loop(j + 1)
            ELSE j - 1
    IN loop(1)

\* a truncate that does not cut
truncate_whole(str, max) == str

\* utils::truncate (imported as trunc): &s[..min(s.len(), max)]
truncate(str, max) == SubSeq(str, 1, Min2(Len(str), max))

\* Ord::cmp of two slices: -1 Less, 0 Equal, 1 Greater
cmp(x, y) == IF SeqLess(x, y) THEN -1 ELSE IF SeqLess(y, x) THEN 1 ELSE 0

\* a starts_with that compares the lengths only
starts_with_length(x, p) == Len(p) <= Len(x)

\* slice::starts_with
starts_with(x, p) == Len(p) <= Len(x) /\ SubSeq(x, 1, Len(p)) = p

\* slice::binary_search_by over the orderings ords[i] = f(&slice[i]), as the
\* standard library of the toolchain computes it: the loop halves size down
\* to 1 without returning at an Equal probe, moving base to mid unless the
\* probe is Greater, and compares once more at base; [ok, i] stands for Ok(i)
\* and Err(i)
binary_search_by(ords) ==
    LET RECURSIVE loop(_, _)
        loop(base, size) ==
            IF size > 1
            THEN LET half == size \div 2
                 IN loop(IF At(ords, base + half) = 1 THEN base ELSE base + half,
                         size - half)
            ELSE IF At(ords, base) = 0 THEN [ok |-> TRUE, i |-> base]
            ELSE [ok |-> FALSE, i |-> base + (IF At(ords, base) = -1 THEN 1 ELSE 0)]
    IN IF Len(ords) = 0 THEN [ok |-> FALSE, i |-> 0] ELSE loop(0, Len(ords))

\* SuffixArray.bkt = None
NoTable == {}

\* enable_buckets: the new value of bkt.  cell(i) is the cell incremented for
\* the position i of the string: that of the pair (c0, c1), or that of a last
\* character (c0, $); bkt[0] = 1 and the prefix sums give the steps
enable_buckets(str, table) ==
    LET cell(i) ==
            IF i < Len(str) - 1
            THEN (At(str, i) * 257) + (At(str, i + 1) + 1) + 1
            ELSE (At(str, i) * 257) + 1
    IN IF table # NoTable THEN table
       ELSE {<<c, 1 + Cardinality({i \in 0..(Len(str) - 1) : cell(i) <= c})>> :
                c \in {0} \cup {cell(i) : i \in 0..(Len(str) - 1)}}

\* bkt[idx]: the value of the last step at or before cell idx
bkt_at(table, idx) ==
    (CHOOSE e \in table : e[1] <= idx /\ \A f \in table : f[1] <= idx => f[1] <= e[1])[2]

\* a get_bucket whose sub-bucket range runs from its end to its start
get_bucket_reversed(table, n1, p) ==
    IF table # NoTable
    THEN IF Len(p) > 1
         THEN <<bkt_at(table, (p[1] * 257) + (p[2] + 1) + 1),
                bkt_at(table, (p[1] * 257) + (p[2] + 1) + 1 - 1)>>
         ELSE IF Len(p) = 1
         THEN <<bkt_at(table, p[1] * 257), bkt_at(table, p[1] * 257 + 257)>>
         ELSE <<0, 1>>
    ELSE <<0, n1>>

\* get_bucket: the range <<start, end>> of the array to search for p; n1 is
\* sa.len()
get_bucket(table, n1, p) ==
    IF table # NoTable
    THEN IF Len(p) > 1
         THEN <<bkt_at(table, (p[1] * 257) + (p[2] + 1) + 1 - 1),
                bkt_at(table, (p[1] * 257) + (p[2] + 1) + 1)>>
         ELSE IF Len(p) = 1
         THEN <<bkt_at(table, p[1] * 257), bkt_at(table, p[1] * 257 + 257)>>
         ELSE <<0, 1>>
    ELSE <<0, n1>>

\* get_top_bucket
get_top_bucket(table, n1, p) ==
    IF table # NoTable
    THEN IF Len(p) > 0
         THEN <<bkt_at(table, p[1] * 257), bkt_at(table, p[1] * 257 + 257)>>
         ELSE <<0, 1>>
    ELSE <<0, n1>>

\* the bounds check of the slice &self.sa[r] of an array of n entries
range_ok(r, n) == r[1] <= r[2] /\ r[2] <= n

\* whether the query op passes the bounds checks of its slices: the range
\* &self.sa[..] it searches (search_all takes the whole array for the empty
\* pattern; lib.rs always searches the whole array), the top bucket search_lcp
\* falls back to when that range is empty, and s[i as usize..] for the entries
\* i the query reads a suffix at: those its binary search probes, and those
\* search_lcp measures around an Err(i); search_lcp of lib.rs also reads
\* sa[i - 1] at Err(0) of an empty array.  The query panics at the first check
\* that fails.  op is "contains", "search_all", "search_lcp" (sa.rs) or
\* "lib_search_lcp"; probes is the set of cells binary_search_by calls f on,
\* bounds the two loops of search_all
query_ok(op, str, arr, table, p) ==
    LET inside(sub, j) == At(sub, j) >= 0 /\ At(sub, j) <= Len(str)
        ords(sub) ==
            Tup([j \in 1..Len(sub) |->
                    IF ~inside(sub, j - 1) THEN 0
                    ELSE IF op = "contains"
                    THEN cmp(truncate(Suffix(str, sub[j]), Len(p)), p)
                    ELSE cmp(Suffix(str, sub[j]), p)],
                Len(sub))
        RECURSIVE probes(_, _, _)
        probes(o, base, size) ==
            IF size > 1
            THEN LET half == size \div 2
                 IN {base + half}
                       \cup probes(o, IF At(o, base + half) = 1 THEN base
                                      ELSE base + half, size - half)
            ELSE {base}
        probed(sub) == IF Len(sub) = 0 THEN {} ELSE probes(ords(sub), 0, Len(sub))
        measured(sub, pt) ==
            IF pt.ok THEN {}
            ELSE IF pt.i > 0 /\ pt.i < Len(sub) THEN {pt.i - 1, pt.i}
            ELSE IF op = "search_lcp"
            THEN (IF pt.i = 0 THEN {pt.i} ELSE {pt.i - 1})
            ELSE (IF pt.i = Len(sub) THEN {pt.i - 1} ELSE {})
        RECURSIVE lower(_, _, _)
        lower(sub, i, kk) ==
            IF i < kk
            THEN LET m == i + (kk - i) \div 2
                 IN IF ~inside(sub, m) THEN -1
                    ELSE IF SeqLess(Suffix(str, At(sub, m)), p) THEN lower(sub, m + 1, kk)
                    ELSE lower(sub, i, m)
            ELSE i
        RECURSIVE upper(_, _, _)
        upper(sub, j, kk) ==
            IF j < kk
            THEN LET m == j + (kk - j) \div 2
                 IN IF ~inside(sub, m) THEN FALSE
                    ELSE IF starts_with(Suffix(str, At(sub, m)), p)
                    THEN upper(sub, m + 1, kk)
                    ELSE upper(sub, j, m)
            ELSE TRUE
        bounds(sub) ==
            \E i0 \in {lower(sub, 0, Len(sub))} : i0 >= 0 /\ upper(sub, i0, Len(sub))
        searched(sub) ==
            IF op = "search_all" THEN bounds(sub)
            ELSE /\ \A j \in probed(sub) : inside(sub, j)
                 /\ (op # "contains" /\ Len(sub) > 0) =>
                        \A j \in measured(sub, binary_search_by(ords(sub))) :
                           inside(sub, j)
        sliced(r) ==
            /\ range_ok(r, Len(arr))
            /\ (op = "lib_search_lcp") => Len(arr) > 0
            /\ IF op = "search_lcp" /\ r[1] = r[2]
               THEN range_ok(get_top_bucket(table, Len(arr), p), Len(arr))
               ELSE searched(Slice(arr, r[1], r[2]))
    IN sliced(IF op = "lib_search_lcp" \/ (op = "search_all" /\ Len(p) = 0)
              THEN <<0, Len(arr)>>
              ELSE get_bucket(table, Len(arr), p))

\* SuffixArray::contains; sub is &self.sa[self.get_bucket(pat)]
contains(str, arr, table, p) ==
    LET within(sub) ==
            binary_search_by(
                Tup([j \in 1..Len(sub) |->
                        cmp(truncate(Suffix(str, sub[j]), Len(p)), p)],
                    Len(sub))).ok
        range(r) == within(Slice(arr, r[1], r[2]))
    IN range(get_bucket(table, Len(arr), p))

\* a search_all that returns the whole range it was to search
search_all_range(str, arr, table, p) ==
    IF Len(p) > 0
    THEN Slice(arr, get_bucket(table, Len(arr), p)[1], get_bucket(table, Len(arr), p)[2])
    ELSE arr

\* SuffixArray::search_all: the slice of indices.  lower is the first loop (the
\* first suffix of sub not below p), upper the second (the first suffix from j
\* on that does not start with p)
search_all(str, arr, table, p) ==
    LET RECURSIVE lower(_, _, _)
        lower(sub, i, kk) ==
            IF i < kk
            THEN LET m == i + (kk - i) \div 2
                 IN IF SeqLess(Suffix(str, At(sub, m)), p) THEN lower(sub, m + 1, kk)
                    ELSE lower(sub, i, m)
            ELSE i
        RECURSIVE upper(_, _, _)
        upper(sub, j, kk) ==
            IF j < kk
            THEN LET m == j + (kk - j) \div 2
                 IN IF starts_with(Suffix(str, At(sub, m)), p)
                    THEN upper(sub, m + 1, kk)
                    ELSE upper(sub, j, m)
            ELSE j
        from(sub, i) == Slice(sub, i, upper(sub, i, Len(sub)))
        within(sub) == from(sub, lower(sub, 0, Len(sub)))
        range(r) == within(Slice(arr, r[1], r[2]))
    IN IF Len(p) > 0 THEN range(get_bucket(table, Len(arr), p)) ELSE within(arr)

\* SuffixArray::search_lcp of sa.rs: the range <<start, end>>.  top is the
\* early return when the bucket of p is empty, at(sub, pt) the match on the
\* outcome pt of the binary search over sub.  top returns sa[0] as usize
\* without slicing s, so a word of 2^31 and more (a negative number here) can
\* come out: a bound of 2^31 and more is given as the pair <<hi, lo>> of
\* hi * 65536 + lo, usize(w) being that pair for the unsigned value of w < 0
search_lcp(str, arr, table, p) ==
    LET lcp_range(start) == <<start, start + common_prefix(p, Suffix(str, start))>>
        usize(w) == <<65536 + (w \div 65536), w % 65536>>
        top(r) ==
            IF r[2] > r[1]
            THEN IF At(arr, r[1]) >= 0 /\ At(arr, r[1]) < 2147483647
                 THEN <<At(arr, r[1]), At(arr, r[1]) + 1>>
                 ELSE IF At(arr, r[1]) >= 0 THEN <<At(arr, r[1]), <<32768, 0>>>>
                 ELSE <<usize(At(arr, r[1])), WideSucc(usize(At(arr, r[1])))>>
            ELSE <<Len(str), Len(str)>>
        at(sub, pt) ==
            IF pt.ok THEN <<At(sub, pt.i), Len(str)>>
            ELSE IF pt.i > 0 /\ pt.i < Len(sub)
            THEN IF common_prefix(p, Suffix(str, At(sub, pt.i - 1)))
                       > common_prefix(p, Suffix(str, At(sub, pt.i)))
                 THEN lcp_range(At(sub, pt.i - 1))
                 ELSE lcp_range(At(sub, pt.i))
            ELSE IF pt.i = 0 THEN lcp_range(At(sub, pt.i))
            ELSE lcp_range(At(sub, pt.i - 1))
        within(sub) ==
            IF Len(sub) = 0 THEN top(get_top_bucket(table, Len(arr), p))
            ELSE at(sub, binary_search_by(
                             Tup([j \in 1..Len(sub) |-> cmp(Suffix(str, sub[j]), p)],
                                 Len(sub))))
        range(r) == within(Slice(arr, r[1], r[2]))
    IN range(get_bucket(table, Len(arr), p))

\* SuffixArray::search_lcp of lib.rs, over the whole array; the match differs
\* from that of sa.rs in its last two arms
lib_search_lcp(str, arr, p) ==
    LET lcp_range(start) == <<start, start + common_prefix(p, Suffix(str, start))>>
        at(pt) ==
            IF pt.ok THEN <<At(arr, pt.i), Len(str)>>
            ELSE IF pt.i > 0 /\ pt.i < Len(arr)
            THEN IF common_prefix(p, Suffix(str, At(arr, pt.i - 1)))
                       > common_prefix(p, Suffix(str, At(arr, pt.i)))
                 THEN lcp_range(At(arr, pt.i - 1))
                 ELSE lcp_range(At(arr, pt.i))
            ELSE IF pt.i = Len(arr) THEN lcp_range(At(arr, pt.i - 1))
            ELSE <<Len(str), Len(str)>>
    IN at(binary_search_by(
              Tup([j \in 1..Len(arr) |-> cmp(Suffix(str, arr[j]), p)], Len(arr))))

\* SuffixArray::new of lib.rs: the array of a fresh value
SuffixArray_new(str) == sacak0(str, Fill(Len(str) + 1, 0))

\* SuffixArray::new of sa.rs, which builds with the wrapper saca::saca
SuffixArray_new_dss(str) == <<Len(str)>> \o dss(str)

\* check_integrity: "true", "false", or "panic" when a slice s[sa[i]..] starts
\* behind the end of s; loop(i) is the rest of for i in 1..sa.len()
check_integrity(str, arr) ==
    LET RECURSIVE loop(_)
        loop(i) ==
            IF i >= Len(arr) THEN "true"
            ELSE IF At(arr, i - 1) < 0 \/ At(arr, i - 1) > Len(str)
                    \/ At(arr, i) < 0 \/ At(arr, i) > Len(str)
            THEN "panic"
            ELSE IF ~SeqLess(Suffix(str, At(arr, i - 1)), Suffix(str, At(arr, i)))
            THEN "false"
            ELSE loop(i + 1)
    IN IF Len(str) + 1 # Len(arr) THEN "false" ELSE loop(1)

\* from_parts: "Some", "None", or "panic" when check_integrity panicked
from_parts(str, arr) ==
    IF check_integrity(str, arr) = "true" THEN "Some"
    ELSE IF check_integrity(str, arr) = "false" THEN "None"
    ELSE "panic"
(***************************************************************************)
(* packed_sa.rs : the bit-packed form.  BitPacker4x packs a block of 128   *)
(* values as 4 lanes (value i goes to lane i mod 4), each lane a stream of *)
(* its 32 values, `bits` bits each, cut into 32-bit little-endian words;   *)
(* the words of the 4 lanes are interleaved.                               *)
(***************************************************************************)
\* Little endian of b"SA4x"
MAGIC_CSA4 == 2016690515
\* BitPacker4x::BLOCK_LEN
BLOCK_LEN == 128

\* sa_bits: 32 - length.saturating_sub(1).leading_zeros()
sa_bits(length) ==
    LET RECURSIVE bit_length(_)
        bit_length(x) == IF x = 0 THEN 0 ELSE 1 + bit_length(x \div 2)
    IN bit_length(IF length = 0 THEN 0 ELSE length - 1)

\* BitPacker4x::compress of the 128 values chunk: bits * 128 / 8 bytes.  Byte x
\* of the block is byte x % 4 of the word x / 16 of lane (x / 4) % 4, and
\* lane_bit(l, t) is bit t of the stream of lane l
compress(chunk, bits) ==
    LET bit_of(v, j) == (v \div (2 ^ j)) % 2
        lane_bit(l, t) == bit_of(At(chunk, 4 * (t \div bits) + l), t % bits)
        RECURSIVE byte(_, _)
        byte(x, j) ==
            IF j >= 8 THEN 0
            ELSE lane_bit((x \div 4) % 4, 32 * (x \div 16) + 8 * (x % 4) + j)
                    * (2 ^ j)
                 + byte(x, j + 1)
    IN Tup([x \in 1..(bits * 16) |-> byte(x - 1, 0)], bits * 16)

\* BitPacker4x::decompress: the 128 values of the block; value(i, j) is the
\* bits j.. of value i, read from the stream of its lane
decompress(bytes, bits) ==
    LET bit_of(v, j) == (v \div (2 ^ j)) % 2
        RECURSIVE value(_, _)
        value(i, j) ==
            IF j >= bits THEN 0
            ELSE bit_of(At(bytes,
                           16 * (((i \div 4) * bits + j) \div 32) + 4 * (i % 4)
                               + ((((i \div 4) * bits + j) % 32) \div 8)),
                        ((i \div 4) * bits + j) % 8)
                    * (2 ^ j)
                 + value(i, j + 1)
    IN Tup([i \in 1..BLOCK_LEN |-> value(i - 1, 0)], BLOCK_LEN)

\* a vector of n zeros with the slice a copied to its front:
\* vec![0; n], chunk[..a.len()].copy_from_slice(a)
zero_padded(a, n) == Tup([j \in 1..n |-> IF j <= Len(a) THEN a[j] ELSE 0], n)

\* bits as usize * Packer::BLOCK_LEN / 8
u8_chunk_size(length) == (sa_bits(length) * BLOCK_LEN) \div 8

\* PackedSuffixArray::from_sa: [magic, length, data].  chunks(rest) is the data
\* pushed from the first loop on, rest being what is left of sa; tail(buf) is
\* the cut of the last block behind its last non-zero byte
from_sa(arr) ==
    LET bits == sa_bits(Len(arr))
        tail(buf) ==
            IF \A j \in 1..Len(buf) : buf[j] = 0 THEN 0
            ELSE CHOOSE t \in 1..Len(buf) :
                    buf[t] # 0 /\ \A j \in (t + 1)..Len(buf) : buf[j] = 0
        cut(buf) == SubSeq(buf, 1, tail(buf))
        RECURSIVE chunks(_)
        chunks(rest) ==
            IF Len(rest) >= BLOCK_LEN
            THEN compress(Slice(rest, 0, BLOCK_LEN), bits)
                    \o chunks(Slice(rest, BLOCK_LEN, Len(rest)))
            ELSE IF Len(rest) > 0
            THEN cut(compress(zero_padded(rest, BLOCK_LEN), bits))
            ELSE <<>>
    IN [magic |-> MAGIC_CSA4, length |-> Len(arr), data |-> chunks(arr)]
(***************************************************************************)
(* Construction of a byte string's suffix array, phase by phase.           *)
(***************************************************************************)
Bytes2 == {97, 98}
Bytes3 == {0, 97, 255}
ByteStrings == StringsUpTo(Bytes2, MaxLen2) \cup StringsUpTo(Bytes3, MaxLen3)
Junk == {0, 7}
NoBucket == [bounds |-> <<>>, ps |-> <<>>, qs |-> <<>>]

\* no query answered yet, nothing packed yet
NoResult == [op |-> "none", val |-> FALSE]
NoPack == [magic |-> 0, length |-> 0, data |-> <<>>]

\* the variables the construction does not use
IdleSearch ==
    bkt = NoTable /\ pat = <<>> /\ res = NoResult /\ data = NoPack /\ remain = 0
IdleInts == k = 0 /\ s0 = <<>>

\* a call with the slices the caller holds: the string, and a workspace of any
\* content whose length is right, one short or one long
InitBuild ==
    /\ pc = "call"
    /\ engine \in {"saca", "saca_dss", "sais_bytes"}
    /\ \/ /\ s \in ByteStrings
          /\ slen = Wide(Len(s))
          /\ \E m \in {Len(s), Len(s) + 1, Len(s) + 2}, j \in Junk :
                /\ engine = "sais_bytes" => m = Len(s) + 1
                /\ salen = Wide(m)
                /\ sa = Fill(m, j)
       \* an over-long string: only its length is held
       \/ /\ engine # "sais_bytes"
          /\ s = <<>>
          /\ slen = WideSucc(IF engine = "saca" THEN MAX_LENGTH ELSE MAX_LENGTH_DSS)
          /\ salen \in {WideSucc(slen), Wide(1)}
          /\ sa = <<>>
    /\ sa0 = sa
    /\ bucket = NoBucket
    /\ cur = 0
    /\ pass = 0
    /\ IdleInts
    /\ IdleSearch

\* sacak0 / sais_bytes up to the seeding of the lms characters
Begin0 ==
    IF Len(s) = 0
    THEN /\ sa' = Put(sa, 0, 0)
         /\ pc' = "done"
         /\ UNCHANGED <<bucket, pass, res>>
    ELSE \E r \in {seed_lms(Bucket_compute(s), s, sa)} :
            /\ sa' = r.sa
            /\ bucket' = r.bkt
            /\ res' = [op |-> "seed_lms", val |-> {}, wr |-> r.wr]
            /\ pass' = 1
            /\ pc' = "induce_l"

\* construct::saca
Saca ==
    /\ pc = "call"
    /\ engine = "saca"
    /\ IF saca_asserts(MAX_LENGTH, slen, salen)
       THEN Begin0
       ELSE pc' = "abort" /\ UNCHANGED <<sa, bucket, pass, res>>
    /\ UNCHANGED <<s, slen, salen, sa0, cur, k, engine, s0, bkt, pat, data, remain>>

\* sais_bytes called on slices that meet its debug assertions
SaisBytes ==
    /\ pc = "call"
    /\ engine = "sais_bytes"
    /\ Begin0
    /\ UNCHANGED <<s, slen, salen, sa0, cur, k, engine, s0, bkt, pat, data, remain>>

\* saca::saca, the wrapper of the library sort
SacaDss ==
    /\ pc = "call"
    /\ engine = "saca_dss"
    /\ IF saca_asserts(MAX_LENGTH_DSS, slen, salen)
       THEN sa' = <<Len(s)>> \o dss(s) /\ pc' = "done"
       ELSE pc' = "abort" /\ UNCHANGED sa
    /\ UNCHANGED <<s, slen, salen, sa0, bucket, cur, pass, k, engine, s0,
                   bkt, pat, res, data, remain>>

\* induce_by_lms, step 1
InduceL ==
    /\ pc = "induce_l"
    /\ \E r \in {induce_l(bucket, s, sa)} :
          /\ sa' = r.sa
          /\ bucket' = r.bkt
          /\ res' = [op |-> "induce_l", val |-> {}, wr |-> r.wr]
    /\ pc' = "clear_tails"
    /\ UNCHANGED <<s, slen, salen, sa0, cur, pass, k, engine, s0, bkt, pat, data, remain>>

\* induce_by_lms, step 2
ClearTails ==
    /\ pc = "clear_tails"
    /\ \E r \in {Bucket_clear_tails(bucket, sa)} : sa' = r.sa /\ bucket' = r.bkt
    /\ pc' = "induce_s"
    /\ UNCHANGED <<s, slen, salen, sa0, cur, pass, k, engine, s0, bkt, pat, res, data, remain>>

\* induce_by_lms, step 3; res keeps the insertions made and what the scan met
\* at equal characters
InduceS ==
    /\ pc = "induce_s"
    /\ \E r \in {induce_s(bucket, s, sa)} :
          /\ sa' = r.sa
          /\ bucket' = r.bkt
          /\ res' = [op |-> "induce_s", val |-> r.eq, wr |-> r.wr]
    /\ pc' = IF pass = 1 THEN "collect" ELSE "done"
    /\ UNCHANGED <<s, slen, salen, sa0, cur, pass, k, engine, s0, bkt, pat, data, remain>>

\* sort_lms_suffixes, step 3
Collect ==
    /\ pc = "collect"
    /\ \E r \in {collect(bucket, s, sa)} : sa' = r.sa /\ cur' = r.h
    /\ pc' = "reduce"
    /\ UNCHANGED <<s, slen, salen, sa0, bucket, pass, k, engine, s0, bkt, pat, res, data, remain>>

\* sort_lms_suffixes, step 4; cur becomes n, the number of lms suffixes, and k
\* keeps the alphabet scale the renaming found
Reduce ==
    /\ pc = "reduce"
    /\ sa' = reduce(s, sa, cur, IF engine = "saca" THEN "sacak1" ELSE "sais_ints_mut")
    /\ cur' = Len(sa) - cur
    /\ k' = rename_substrs(s, Slice(sa, 0, cur), Slice(sa, cur, Len(sa))).k
    /\ pc' = "place"
    /\ UNCHANGED <<s, slen, salen, sa0, bucket, pass, engine, s0, bkt, pat, res, data, remain>>

\* sort_lms_suffixes, step 5, and the entry of the second induce_by_lms
Place ==
    /\ pc = "place"
    /\ \E r \in {place_sorted(bucket, s, sa, cur)} :
          /\ sa' = r.sa
          /\ bucket' = r.bkt
          /\ res' = [op |-> "place_sorted", val |-> {}, wr |-> r.wr]
    /\ pass' = 2
    /\ pc' = "induce_l"
    /\ UNCHANGED <<s, slen, salen, sa0, cur, k, engine, s0, bkt, pat, data, remain>>

NextBuild ==
    \/ Saca \/ SaisBytes \/ SacaDss
    \/ InduceL \/ ClearTails \/ InduceS
    \/ Collect \/ Reduce \/ Place

SpecBuild == InitBuild /\ [][NextBuild]_vars

(***************************************************************************)
(* The inner-level engines called on a writable integer string.            *)
(***************************************************************************)
IntStrings ==
    StringsUpTo({0, 1}, MaxIntsLen2) \cup StringsUpTo(0..(MaxIntsLen - 1), MaxIntsLen)

\* s over [0, k), k <= |s|, and an (|s|+1)-cell workspace of any content
InitInts ==
    /\ pc = "call"
    /\ engine \in {"llhsais", "sacak_u32s"}
    /\ s \in IntStrings
    /\ k \in 0..Len(s)
    /\ \A j \in 1..Len(s) : s[j] < k
    /\ \E j \in Junk : sa = Fill(Len(s) + 1, j)
    /\ s0 = s
    /\ sa0 = sa
    /\ slen = Wide(Len(s))
    /\ salen = Wide(Len(sa))
    /\ bucket = NoBucket
    /\ cur = 0
    /\ pass = 0
    /\ IdleSearch

Llhsais ==
    /\ pc = "call"
    /\ engine = "llhsais"
    /\ \E r \in {llhsais(s, k, sa)} : s' = r.s /\ sa' = r.sa
    /\ pc' = "done"
    /\ UNCHANGED <<slen, salen, sa0, bucket, cur, pass, k, engine, s0,
                   bkt, pat, res, data, remain>>

SacakU32s ==
    /\ pc = "call"
    /\ engine = "sacak_u32s"
    /\ \E r \in {sacak_u32s(s, k, sa)} : s' = r.s /\ sa' = r.sa
    /\ pc' = "done"
    /\ UNCHANGED <<slen, salen, sa0, bucket, cur, pass, k, engine, s0,
                   bkt, pat, res, data, remain>>

NextInts == Llhsais \/ SacakU32s

SpecInts == InitInts /\ [][NextInts]_vars

(***************************************************************************)
(* Searching a suffix array.  A query borrows the value immutably: the     *)
(* machine answers one query on the value as it stands, with or without    *)
(* the bucket table.  engine tells lib.rs (no table) from sa.rs; contains  *)
(* and search_all of lib.rs are those of sa.rs on a value without table.   *)
(***************************************************************************)
MaxText == 3        \* longest text searched
MaxPat == 3         \* longest pattern queried
SearchBytes == {0, 97, 255}
Texts == StringsUpTo(SearchBytes, MaxText)
\* b"mmississiippii", the example text, and patterns over its letters i and s
ExampleText == <<109, 109, 105, 115, 115, 105, 115, 115, 105, 105, 112, 112, 105, 105>>
ExamplePatterns == StringsUpTo({105, 115}, 2) \ {<<>>}
Patterns == StringsUpTo(SearchBytes, MaxPat) \cup ExamplePatterns

\* the variables the searches do not use
IdleBuild ==
    /\ slen = Wide(Len(s))
    /\ salen = Wide(Len(sa))
    /\ sa0 = sa
    /\ bucket = NoBucket
    /\ cur = 0
    /\ pass = 0

\* SuffixArray::new(s)
InitSearch ==
    /\ pc = "ready"
    /\ engine \in {"lib", "sa"}
    /\ s \in Texts
    /\ sa = IF engine = "lib" THEN SuffixArray_new(s) ELSE SuffixArray_new_dss(s)
    /\ bkt = NoTable
    /\ pat = <<>>
    /\ res = NoResult
    /\ data = NoPack
    /\ remain = 0
    /\ IdleBuild
    /\ IdleInts

EnableBuckets ==
    /\ pc = "ready"
    /\ engine = "sa"
    /\ bkt' = enable_buckets(s, bkt)
    /\ UNCHANGED <<pc, s, sa, slen, salen, sa0, bucket, cur, pass, k, engine, s0,
                   pat, res, data, remain>>

Contains ==
    /\ pc = "ready"
    /\ \E p \in Patterns :
          /\ pat' = p
          /\ IF query_ok("contains", s, sa, bkt, p)
             THEN /\ res' = [op |-> "contains", val |-> contains(s, sa, bkt, p)]
                  /\ pc' = "answered"
             ELSE pc' = "abort" /\ UNCHANGED res
    /\ UNCHANGED <<s, sa, slen, salen, sa0, bucket, cur, pass, k, engine, s0,
                   bkt, data, remain>>

SearchAll ==
    /\ pc = "ready"
    /\ \E p \in Patterns :
          /\ pat' = p
          /\ IF query_ok("search_all", s, sa, bkt, p)
             THEN /\ res' = [op |-> "search_all", val |-> search_all(s, sa, bkt, p)]
                  /\ pc' = "answered"
             ELSE pc' = "abort" /\ UNCHANGED res
    /\ UNCHANGED <<s, sa, slen, salen, sa0, bucket, cur, pass, k, engine, s0,
                   bkt, data, remain>>

SearchLcp ==
    /\ pc = "ready"
    /\ \E p \in Patterns :
          /\ pat' = p
          /\ IF query_ok(IF engine = "lib" THEN "lib_search_lcp" ELSE "search_lcp",
                      s, sa, bkt, p)
             THEN /\ res' = [op |-> "search_lcp",
                             val |-> IF engine = "lib" THEN lib_search_lcp(s, sa, p)
                                     ELSE search_lcp(s, sa, bkt, p)]
                  /\ pc' = "answered"
             ELSE pc' = "abort" /\ UNCHANGED res
    /\ UNCHANGED <<s, sa, slen, salen, sa0, bucket, cur, pass, k, engine, s0,
                   bkt, data, remain>>

\* SuffixArray::new(b"mmississiippii")
InitExample ==
    /\ pc = "ready"
    /\ engine \in {"lib", "sa"}
    /\ s = ExampleText
    /\ sa = IF engine = "lib" THEN SuffixArray_new(s) ELSE SuffixArray_new_dss(s)
    /\ bkt = NoTable
    /\ pat = <<>>
    /\ res = NoResult
    /\ data = NoPack
    /\ remain = 0
    /\ IdleBuild
    /\ IdleInts

NextSearch == EnableBuckets \/ Contains \/ SearchAll \/ SearchLcp

SpecSearch == InitSearch /\ [][NextSearch]_vars

SpecExample == InitExample /\ [][NextSearch]_vars

(***************************************************************************)
(* from_parts on a string and any vector of words.                         *)
(***************************************************************************)
MaxPartsLen == 2    \* longest string composed with a vector
PartsBytes == {97, 98}
\* the words of a vector: every index, one beyond the string, and 0xffffffff
PartsWords == (0..(MaxPartsLen + 1)) \cup {-1}

InitParts ==
    /\ pc = "call"
    /\ engine = "from_parts"
    /\ s \in StringsUpTo(PartsBytes, MaxPartsLen)
    /\ sa \in StringsUpTo(PartsWords, Len(s) + 2)
    /\ IdleBuild
    /\ IdleInts
    /\ IdleSearch

\* SuffixArray::from_parts; a panic of check_integrity aborts the call
FromParts ==
    /\ pc = "call"
    /\ engine = "from_parts"
    /\ IF from_parts(s, sa) = "panic"
       THEN pc' = "abort" /\ UNCHANGED res
       ELSE pc' = "done" /\ res' = [op |-> "from_parts", val |-> from_parts(s, sa)]
    /\ UNCHANGED <<s, sa, slen, salen, sa0, bucket, cur, pass, k, engine, s0,
                   bkt, pat, data, remain>>

NextParts == FromParts

SpecParts == InitParts /\ [][NextParts]_vars

(***************************************************************************)
(* Packing a suffix array and reading it back.  data is the packed value,  *)
(* cur the number of its bytes the decoder has consumed, res the vector    *)
(* the decoder builds.                                                     *)
(***************************************************************************)
MaxPackText == 4    \* longest text whose array is built before it is packed
MaxChunks == 2      \* most full 128-value chunks of a packed array
PackBytes == {97, 98}
\* lengths around the chunk size: one less, exact, one more
PackLens == {c * BLOCK_LEN + d : c \in 1..MaxChunks, d \in {-1, 0, 1}}

\* the suffix array of 97 repeated len - 1 times: len - 1, len - 2, .., 0
array_of_run(len) == Tup([j \in 1..len |-> len - j], len)
\* the suffix array of 97 repeated len - 2 times then 98: len - 1, 0, 1, .., len - 2
array_of_run_b(len) == Tup([j \in 1..len |-> IF j = 1 THEN len - 1 ELSE j - 2], len)

InitPack ==
    /\ pc = "call"
    /\ engine = "pack"
    /\ \/ s \in StringsUpTo(PackBytes, MaxPackText) /\ sa = SuffixArray_new(s)
       \/ \E len \in PackLens :
             \/ s = Fill(len - 1, 97) /\ sa = array_of_run(len)
             \/ s = Append(Fill(len - 2, 97), 98) /\ sa = array_of_run_b(len)
    /\ bkt = NoTable
    /\ pat = <<>>
    /\ res = <<>>
    /\ data = NoPack
    /\ remain = 0
    /\ IdleBuild
    /\ IdleInts

\* PackedSuffixArray::from_sa
FromSa ==
    /\ pc = "call"
    /\ engine = "pack"
    /\ data' = from_sa(sa)
    /\ pc' = "packed"
    /\ UNCHANGED <<s, sa, slen, salen, sa0, bucket, cur, pass, k, engine, s0,
                   bkt, pat, res, remain>>

\* into_sa up to its first loop
IntoSaBegin ==
    /\ pc = "packed"
    /\ IF data.magic = MAGIC_CSA4
       THEN pc' = "decoding" /\ cur' = 0 /\ remain' = data.length /\ res' = <<>>
       ELSE pc' = "abort" /\ UNCHANGED <<cur, remain, res>>
    /\ UNCHANGED <<s, sa, slen, salen, sa0, bucket, pass, k, engine, s0,
                   bkt, pat, data>>

\* into_sa, one iteration of the loop while data.len() >= u8_chunk_size.  The
\* slice buf[..n] of the 128-value buffer panics when n is larger.  When
\* n > remain, remain -= n panics in a build with overflow checks and wraps
\* in a build without them, where the loop goes on: a negative remain stands
\* for the wrapped value 2^64 + remain
IntoSaChunk ==
    /\ pc = "decoding"
    /\ Len(data.data) - cur >= u8_chunk_size(data.length)
    /\ \E n \in {IF Len(data.data) - cur - u8_chunk_size(data.length) = 0
                 THEN remain ELSE BLOCK_LEN} :
          \/ /\ n > BLOCK_LEN \/ n < 0 \/ (remain >= 0 /\ n > remain)
             /\ pc' = "abort"
             /\ UNCHANGED <<cur, remain, res>>
          \/ /\ n >= 0 /\ n <= BLOCK_LEN
             /\ res' = res \o SubSeq(decompress(Slice(data.data, cur,
                                                      cur + u8_chunk_size(data.length)),
                                                sa_bits(data.length)),
                                     1, n)
             /\ cur' = cur + u8_chunk_size(data.length)
             /\ remain' = remain - n
             /\ pc' = "decoding"
    /\ UNCHANGED <<s, sa, slen, salen, sa0, bucket, pass, k, engine, s0,
                   bkt, pat, data>>

\* into_sa, the bytes left behind the last full chunk, and the return
IntoSaTail ==
    /\ pc = "decoding"
    /\ Len(data.data) - cur < u8_chunk_size(data.length)
    /\ IF Len(data.data) - cur > 0
       THEN IF remain > BLOCK_LEN \/ remain < 0
            THEN pc' = "abort" /\ UNCHANGED res
            ELSE /\ res' = res \o SubSeq(
                               decompress(
                                   zero_padded(Slice(data.data, cur, Len(data.data)),
                                               u8_chunk_size(data.length)),
                                   sa_bits(data.length)),
                               1, remain)
                 /\ pc' = IF engine = "load" THEN "decoded" ELSE "done"
       ELSE pc' = (IF engine = "load" THEN "decoded" ELSE "done") /\ UNCHANGED res
    /\ UNCHANGED <<s, sa, slen, salen, sa0, bucket, cur, pass, k, engine, s0,
                   bkt, pat, data, remain>>

NextPack == FromSa \/ IntoSaBegin \/ IntoSaChunk \/ IntoSaTail

SpecPack == InitPack /\ [][NextPack]_vars

(***************************************************************************)
(* Loading a packed suffix array for a byte string: SuffixArray::load is   *)
(* PackedSuffixArray::load, into_sa, unchecked_from_parts and then         *)
(* check_integrity.  The machine starts from the packed value as the       *)
(* deserializer hands it over: any magic, any length field, any payload.   *)
(***************************************************************************)
MaxLoadText == 2    \* longest text whose packed array is loaded
LoadTexts == StringsUpTo(PackBytes, MaxLoadText)

\* a packed value and what a damaged file makes of it: another magic, a
\* length field that is too large by one or by more than a chunk, a payload
\* that lost its last byte, a payload that is two chunks long
damaged(p) ==
    {p,
     [p EXCEPT !.magic = 0],
     [p EXCEPT !.length = @ + 1],
     [p EXCEPT !.length = @ + BLOCK_LEN + 1],
     [p EXCEPT !.data = Slice(@, 0, IF Len(@) = 0 THEN 0 ELSE Len(@) - 1)],
     [p EXCEPT !.data = zero_padded(@, 2 * u8_chunk_size(p.length))]}

LoadPacks ==
    UNION {damaged(from_sa(SuffixArray_new(t))) : t \in LoadTexts}
        \cup damaged(from_sa(<<2, 3, 1>>))

InitLoad ==
    /\ pc = "packed"
    /\ engine = "load"
    /\ s \in LoadTexts
    /\ data \in LoadPacks
    /\ sa = <<>>
    /\ bkt = NoTable
    /\ pat = <<>>
    /\ res = <<>>
    /\ remain = 0
    /\ IdleBuild
    /\ IdleInts

\* SuffixArray::load behind into_sa: unchecked_from_parts and check_integrity;
\* sa becomes the vector of the value, res the Result returned
LoadCheck ==
    /\ pc = "decoded"
    /\ engine = "load"
    /\ IF check_integrity(s, res) = "panic"
       THEN pc' = "abort" /\ UNCHANGED <<sa, res>>
       ELSE /\ pc' = "done"
            /\ sa' = res
            /\ res' = [op |-> "load",
                       val |-> IF check_integrity(s, res) = "true" THEN "Ok" ELSE "Err"]
    /\ UNCHANGED <<s, slen, salen, sa0, bucket, cur, pass, k, engine, s0,
                   bkt, pat, data, remain>>

NextLoad == IntoSaBegin \/ IntoSaChunk \/ IntoSaTail \/ LoadCheck

SpecLoad == InitLoad /\ [][NextLoad]_vars

(***************************************************************************)
(* A SuffixArray value under its mutating methods.  s is the field s, sa   *)
(* the field sa, bkt the field bkt, cur the capacity of the vector sa, and *)
(* s0 the string last handed to new or set.                                *)
(***************************************************************************)
MaxValueText == 2   \* longest string a value is built or set on
ValueTexts == StringsUpTo(PartsBytes, MaxValueText)

\* Vec::resize(n, 0): the vector cut or filled with zeros to n entries
resize(arr, n) == Tup([j \in 1..n |-> IF j <= Len(arr) THEN arr[j] ELSE 0], n)

\* the capacity of a vector of capacity cap resized to n entries: kept when it
\* suffices, else grown to max(2 * cap, n, 4)
grown(cap, n) ==
    IF n <= cap THEN cap
    ELSE IF 2 * cap >= n /\ 2 * cap >= 4 THEN 2 * cap
    ELSE IF n >= 4 THEN n ELSE 4

\* the vector after set(str): resized, then filled by the engine of the file
SuffixArray_set(eng, arr, str) ==
    IF eng = "lib" THEN sacak0(str, resize(arr, Len(str) + 1))
    ELSE <<Len(str)>> \o dss(str)

InitValue ==
    /\ pc = "ready"
    /\ engine \in {"lib", "sa"}
    /\ s \in ValueTexts
    /\ sa = IF engine = "lib" THEN SuffixArray_new(s) ELSE SuffixArray_new_dss(s)
    /\ s0 = s
    /\ cur = Len(sa)
    /\ slen = Wide(Len(s))
    /\ salen = Wide(Len(sa))
    /\ sa0 = sa
    /\ bucket = NoBucket
    /\ pass = 0
    /\ k = 0
    /\ IdleSearch

\* SuffixArray::set: the field s is not assigned
Set ==
    /\ pc = "ready"
    /\ \E s2 \in ValueTexts :
          /\ sa' = SuffixArray_set(engine, sa, s2)
          /\ cur' = grown(cur, Len(s2) + 1)
          /\ s0' = s2
    /\ UNCHANGED <<pc, s, slen, salen, sa0, bucket, pass, k, engine,
                   bkt, pat, res, data, remain>>

\* SuffixArray::fit
Fit ==
    /\ pc = "ready"
    /\ cur' = Len(sa)
    /\ UNCHANGED <<pc, s, sa, slen, salen, sa0, bucket, pass, k, engine, s0,
                   bkt, pat, res, data, remain>>

\* SuffixArray::len
LenOf ==
    /\ pc = "ready"
    /\ res' = [op |-> "len", val |-> Len(s)]
    /\ UNCHANGED <<pc, s, sa, slen, salen, sa0, bucket, cur, pass, k, engine, s0,
                   bkt, pat, data, remain>>

NextValue == Set \/ Fit \/ EnableBuckets \/ LenOf

SpecValue == InitValue /\ [][NextValue]_vars
(***************************************************************************)
(* The descent of a construction through its recursion levels: each level  *)
(* sorts and collects its lms substrings, renames them, and either finds   *)
(* the names unique or invokes the inner sorter on the reduced string.     *)
(* pass is the depth, remain the length of the parent string, s0 the       *)
(* string of the outermost call.                                           *)
(***************************************************************************)
MaxDescentLen == 6   \* longest of the exhaustively drawn strings
MaxPeriods == 4      \* most repetitions of a period in the long strings

RECURSIVE Repeat(_, _)
Repeat(w, m) == IF m = 0 THEN <<>> ELSE w \o Repeat(w, m - 1)

\* periodic strings, whose reduced strings have repeated names again
DescentPeriods == {<<97, 98>>, <<97, 97, 98>>, <<98, 97, 98, 97, 97>>}
DescentTexts ==
    StringsUpTo(Bytes2, MaxDescentLen)
        \cup {Repeat(w, m) \o t : w \in DescentPeriods, m \in 1..MaxPeriods,
                                  t \in {<<>>, <<97>>, <<98>>}}

\* the engine that runs at the levels below level 0 of a construction
inner_engine(eng) ==
    IF eng = "saca" \/ eng = "sacak_u32s" THEN "sacak_u32s" ELSE "llhsais"

InitDescent ==
    /\ pc = "call"
    /\ \/ /\ engine \in {"saca", "sais_bytes"}
          /\ s \in DescentTexts
          /\ k = 256
       \/ /\ engine \in {"sacak_u32s", "llhsais"}
          /\ s \in StringsUpTo({0, 1}, MaxDescentLen)
          /\ k = Min2(2, Len(s))
          /\ \A j \in 1..Len(s) : s[j] < k
    /\ sa = Fill(Len(s) + 1, 0)
    /\ s0 = s
    /\ sa0 = sa
    /\ slen = Wide(Len(s))
    /\ salen = Wide(Len(sa))
    /\ bucket = NoBucket
    /\ cur = 0
    /\ pass = 0
    /\ IdleSearch

\* sacak0 / sais_bytes up to the split of the workspace at h (steps 1 to 3 of
\* sort_lms_suffixes)
Enter0 ==
    /\ pc = "call"
    /\ pass = 0
    /\ engine \in {"saca", "sais_bytes"}
    /\ IF Len(s) = 0
       THEN sa' = Put(sa, 0, 0) /\ pc' = "done" /\ UNCHANGED cur
       ELSE \E w \in {seed_lms(Bucket_compute(s), s, sa)} :
            \E x \in {induce_by_lms(w.bkt, s, w.sa)} :
            \E cl \in {collect(x.bkt, s, x.sa)} :
               sa' = cl.sa /\ cur' = cl.h /\ pc' = "reduce"
    /\ UNCHANGED <<s, slen, salen, sa0, bucket, pass, k, engine, s0,
                   bkt, pat, res, data, remain>>

\* sacak_u32s / llhsais up to the split of the workspace at h, on a workspace
\* of |s| + 1 cells (the debug_assert of the entry; what a build without it
\* does on another workspace is not modelled).  The empty string returns
\* before transform_string; on a longer one k > |s| aborts the call in either
\* build, by the debug_assert of transform_string or by the slice sa[..k + 1]
EnterInner ==
    /\ pc = "call"
    /\ pass > 0 \/ engine \in {"sacak_u32s", "llhsais"}
    /\ Len(sa) = Len(s) + 1
    /\ IF Len(s) = 0
       THEN sa' = Put(sa, 0, 0) /\ pc' = "done" /\ UNCHANGED <<s, cur>>
       ELSE IF Len(s) < k
       THEN pc' = "abort" /\ UNCHANGED <<s, sa, cur>>
       ELSE \E tr \in {transform_string(s, k, sa)} :
            \E cl \in {IF inner_engine(engine) = "llhsais"
                       THEN llh_collect_lms(tr.s, tr.sa)
                       ELSE u32s_collect_lms(tr.s, tr.sa)} :
               s' = tr.s /\ sa' = cl.sa /\ cur' = cl.h /\ pc' = "reduce"
    /\ UNCHANGED <<slen, salen, sa0, bucket, pass, k, engine, s0,
                   bkt, pat, res, data, remain>>

\* suffixes_from_substrs up to the call of sort: the renaming, then either the
\* names are unique, tail is copied over the start of head and no sub-problem
\* is built, or the names are compacted
\* and the inner sorter is invoked on (head[..t], k, tail)
Rename ==
    /\ pc = "reduce"
    /\ \E rn \in {rename_substrs(s, Slice(sa, 0, cur), Slice(sa, cur, Len(sa)))} :
          IF rn.k + 1 = Len(sa) - cur
          THEN /\ sa' = copy_tail_to_head(rn.head, Slice(sa, cur, Len(sa)))
                            \o Slice(sa, cur, Len(sa))
               /\ pc' = "done"
               /\ UNCHANGED <<s, k, pass, remain>>
          ELSE \E cp \in {compact(rn.head, 0, 0)} :
                  /\ s' = Slice(cp.head, 0, cp.t)
                  /\ k' = rn.k
                  /\ sa' = Slice(sa, cur, Len(sa))
                  /\ remain' = Len(s)
                  /\ pass' = pass + 1
                  /\ pc' = "call"
    /\ UNCHANGED <<slen, salen, sa0, bucket, cur, engine, s0,
                   bkt, pat, res, data>>

NextDescent == Enter0 \/ EnterInner \/ Rename

SpecDescent == InitDescent /\ [][NextDescent]_vars
(***************************************************************************)
(* sais/utils.rs and sais/mod.rs : the type bitmap and the comparison of   *)
(* lms substrings that reads it.  A bitmap is [len, map], map a sequence   *)
(* of 32-bit chunks, each the set of its bits that are 1.  The build is    *)
(* "debug" (debug_assertions on) or "release"; results that may panic are  *)
(* "true", "false" or "panic".                                             *)
(***************************************************************************)
\* Types::new
Types_new(len, t) ==
    [len |-> len,
     map |-> Fill(IF len % 32 = 0 THEN len \div 32 ELSE len \div 32 + 1,
                  IF t THEN 0..31 ELSE {})]

\* Types::set (i < len at every call of calculate)
Types_set(ty, i, t) ==
    [ty EXCEPT !.map = Put(ty.map, i \div 32,
                           IF t THEN At(ty.map, i \div 32) \cup {i % 32}
                           ELSE At(ty.map, i \div 32) \ {i % 32})]

\* Index for Types: the debug build asserts i < len and reads chunk i / 32,
\* the release build reads chunk 1 / 32 = 0 without a check
Types_index(build, ty, i) ==
    IF build = "debug"
    THEN IF i >= ty.len THEN "panic"
         ELSE IF i % 32 \in At(ty.map, i \div 32) THEN "true" ELSE "false"
    ELSE IF i % 32 \in At(ty.map, 1 \div 32) THEN "true" ELSE "false"

\* Types::calculate on a string of one character or more; loop(ty, i) is the
\* rest of for i in (0..s.len() - 1).rev()
Types_calculate(build, str) ==
    LET RECURSIVE loop(_, _)
        loop(ty, i) ==
            IF i < 0 THEN ty
            ELSE IF At(str, i) < At(str, i + 1) THEN loop(Types_set(ty, i, TRUE), i - 1)
            ELSE IF At(str, i) > At(str, i + 1) THEN loop(ty, i - 1)
            ELSE loop(Types_set(ty, i, Types_index(build, ty, i + 1) = "true"), i - 1)
    IN loop(Types_new(Len(str), FALSE), Len(str) - 2)

\* Types::is_lms
Types_is_lms(build, ty, i) ==
    IF i > ty.len /\ build = "debug" THEN "panic"
    ELSE IF i = ty.len THEN "true"
    ELSE IF i = 0 THEN "false"
    ELSE IF Types_index(build, ty, i) = "true"
            /\ Types_index(build, ty, i - 1) # "true"
    THEN "true" ELSE "false"

\* SaisContext::lms_substring_eq (i, j <= |s|); loop(d) is the rest of the loop
\* over the zipped iterators, whose items past the end of s are None
lms_substring_eq(build, str, ty, i, j) ==
    LET n == Len(str)
        RECURSIVE loop(_)
        loop(d) ==
            IF i + d > n \/ j + d > n THEN "false"
            ELSE IF (i + d = n) # (j + d = n) THEN "false"
            ELSE IF i + d < n /\ At(str, i + d) # At(str, j + d) THEN "false"
            ELSE IF Types_index(build, ty, i + d) = "panic"
                    \/ Types_index(build, ty, j + d) = "panic" THEN "panic"
            ELSE IF Types_index(build, ty, i + d) # Types_index(build, ty, j + d)
            THEN "false"
            ELSE IF d > 0 /\ (Types_is_lms(build, ty, i + d) = "true"
                              \/ Types_is_lms(build, ty, j + d) = "true")
            THEN "true"
            ELSE loop(d + 1)
    IN loop(0)

(***************************************************************************)
(* The definitions the two comparisons and the enumeration are checked     *)
(* against: types by the order of neighbouring suffixes.                   *)
(***************************************************************************)
\* position i is S-type: its suffix is smaller than the next one (the last
\* character is L-type, the sentinel position S-type)
IsSType(str, i) ==
    i = Len(str) \/ (i < Len(str) - 1 /\ SeqLess(Suffix(str, i), Suffix(str, i + 1)))
IsLms(str, i) == i >= 1 /\ i < Len(str) /\ IsSType(str, i) /\ ~IsSType(str, i - 1)
LmsPositions(str) == {i \in 1..(Len(str) - 1) : IsLms(str, i)}
\* where the lms substring that starts at i ends: the next lms position, the
\* sentinel when there is none
LmsEnd(str, i) ==
    IF i = Len(str) THEN i
    ELSE The({e \in (LmsPositions(str) \cup {Len(str)}) :
                 e > i /\ \A f \in LmsPositions(str) : f > i => e <= f})
\* the character at i, the sentinel below every character
CharAt(str, i) == IF i = Len(str) THEN -1 ELSE At(str, i)
SameLmsSubstring(str, i, j) ==
    /\ LmsEnd(str, i) - i = LmsEnd(str, j) - j
    /\ \A o \in 0..(LmsEnd(str, i) - i) :
          /\ CharAt(str, i + o) = CharAt(str, j + o)
          /\ IsSType(str, i + o) = IsSType(str, j + o)

MaxLmsLen2 == 7   \* longest string over {a, b}
MaxLmsLen3 == 5   \* longest string over {0, a, 255}
\* strings longer than one chunk of the bitmap, with an lms position past it
LongTexts == {Fill(32, 97) \o t : t \in {<<98, 97, 98>>, <<98, 97, 98, 97, 98, 97, 98>>}}
LmsTexts ==
    ((StringsUpTo(Bytes2, MaxLmsLen2) \cup StringsUpTo(Bytes3, MaxLmsLen3)) \ {<<>>})
        \cup LongTexts

\* engine is the build of the bitmap code
InitLms ==
    /\ pc = "ready"
    /\ engine \in {"debug", "release"}
    /\ s \in LmsTexts
    /\ sa = <<>>
    /\ s0 = s
    /\ sa0 = sa
    /\ slen = Wide(Len(s))
    /\ salen = Wide(0)
    /\ bucket = NoBucket
    /\ cur = 0
    /\ pass = 0
    /\ k = 0
    /\ bkt = NoTable
    /\ pat = <<>>
    /\ res = NoResult
    /\ data = NoPack
    /\ remain = 0

\* both comparisons called on a pair of lms positions, the sentinel included
LmsSubstrEq ==
    /\ pc = "ready"
    /\ \E i, j \in LmsPositions(s) \cup {Len(s)} :
       \E ty \in {Types_calculate(engine, s)} :
          res' = [op |-> "lms_substr_eq",
                  val |-> [i |-> i, j |-> j,
                           free |-> lms_substr_eq(s, i, j),
                           bitmap |-> lms_substring_eq(engine, s, ty, i, j)]]
    /\ UNCHANGED <<pc, s, sa, slen, salen, sa0, bucket, cur, pass, k, engine, s0,
                   bkt, pat, data, remain>>

\* for_each_lms, and the positions the bitmap classifies as lms
ForEachLms ==
    /\ pc = "ready"
    /\ \E sentinel \in BOOLEAN :
       \E ty \in {Types_calculate(engine, s)} :
          res' = [op |-> "for_each_lms",
                  val |-> [sentinel |-> sentinel,
                           calls |-> for_each_lms(s, sentinel),
                           bitmap |-> {i \in 0..Len(s) :
                                          Types_is_lms(engine, ty, i) = "true"}]]
    /\ UNCHANGED <<pc, s, sa, slen, salen, sa0, bucket, cur, pass, k, engine, s0,
                   bkt, pat, data, remain>>

\* a read of the bitmap Types::calculate built, at a position below |s|
ReadTypes ==
    /\ pc = "ready"
    /\ \E i \in 0..(Len(s) - 1) :
       \E ty \in {Types_calculate(engine, s)} :
          res' = [op |-> "types_index",
                  val |-> [i |-> i, bit |-> Types_index(engine, ty, i)]]
    /\ UNCHANGED <<pc, s, sa, slen, salen, sa0, bucket, cur, pass, k, engine, s0,
                   bkt, pat, data, remain>>

NextLms == LmsSubstrEq \/ ForEachLms \/ ReadTypes

SpecLms == InitLms /\ [][NextLms]_vars
(***************************************************************************)
(* The reduction of level 0 step by step: sort_lms_suffixes of             *)
(* construct/sacak0/mod.rs up to the return of suffixes_from_substrs, with *)
(* the lms seeds of step 1 placed in any order inside their bucket tails.  *)
(* cur is h, the split point of the workspace into head and tail.          *)
(***************************************************************************)
MaxReduceLen2 == 8   \* longest string over {a, b}
MaxReduceLen3 == 5   \* longest string over {0, a, 255}
\* longer strings with repeated lms substrings
PeriodicTexts ==
    {Repeat(<<98, 97, 98, 97, 97>>, 2), Repeat(<<97, 97, 98>>, 4),
     Repeat(<<98, 97>>, 5) \o <<97>>}
ReduceTexts ==
    ((StringsUpTo(Bytes2, MaxReduceLen2) \cup StringsUpTo(Bytes3, MaxReduceLen3))
        \ {<<>>}) \cup PeriodicTexts

Range(f) == {f[x] : x \in DOMAIN f}

\* every sequence that lists the elements of S once
RECURSIVE Orders(_)
Orders(S) ==
    IF S = {} THEN {<<>>}
    ELSE UNION {{<<x>> \o o : o \in Orders(S \ {x})} : x \in S}

\* sort_lms_suffixes, step 1, with the calls of insert_tail made in the order
\* of the sequence calls
seed_lms_in(b, str, work, calls) ==
    LET RECURSIVE place(_, _)
        place(r, cs) ==
            IF cs = <<>> THEN r
            ELSE place(Bucket_insert_tail(r.bkt, str, r.sa, Head(cs)), Tail(cs))
        sentinel(r) == [sa |-> Put(r.sa, 0, Len(str)), bkt |-> r.bkt]
    IN sentinel(place([sa |-> Fill(Len(work), EMPTY), bkt |-> b], calls))

\* the inner sorter sort_lms_suffixes hands to suffixes_from_substrs
inner_sort == IF engine = "saca" THEN "sacak1" ELSE "sais_ints_mut"

InitReduce ==
    /\ pc = "seed"
    /\ engine \in {"saca", "sais_bytes"}
    /\ s \in ReduceTexts
    /\ sa = Fill(Len(s) + 1, 0)
    /\ s0 = s
    /\ sa0 = sa
    /\ slen = Wide(Len(s))
    /\ salen = Wide(Len(sa))
    /\ bucket = Bucket_compute(s)
    /\ cur = 0
    /\ pass = 0
    /\ k = 0
    /\ bkt = NoTable
    /\ pat = <<>>
    /\ res = NoResult
    /\ data = NoPack
    /\ remain = 0

\* step 1
SeedLms ==
    /\ pc = "seed"
    /\ \E calls \in Orders({c[1] : c \in Range(for_each_lms(s, FALSE))}) :
       \E r \in {seed_lms_in(bucket, s, sa, calls)} :
          /\ sa' = r.sa
          /\ bucket' = r.bkt
          /\ res' = [op |-> "seed_lms", val |-> calls]
    /\ pc' = "induce"
    /\ UNCHANGED <<s, slen, salen, sa0, cur, pass, k, engine, s0, bkt, pat, data, remain>>

\* steps 2 and 3
SortSubstrs ==
    /\ pc = "induce"
    /\ \E r \in {induce_by_lms(bucket, s, sa)} :
       \E cl \in {collect(r.bkt, s, r.sa)} :
          /\ sa' = cl.sa
          /\ cur' = cl.h
          /\ bucket' = r.bkt
    /\ pc' = "split"
    /\ UNCHANGED <<s, slen, salen, sa0, pass, k, engine, s0, bkt, pat, res, data, remain>>

\* suffixes_from_substrs, step 1: val keeps the writes of the renaming and the
\* head it left
RenameSubstrs ==
    /\ pc = "split"
    /\ \E rn \in {rename_substrs(s, Slice(sa, 0, cur), Slice(sa, cur, Len(sa)))} :
          /\ sa' = rn.head \o Slice(sa, cur, Len(sa))
          /\ k' = rn.k
          /\ res' = [op |-> "rename_substrs",
                     val |-> [wr |-> rn.wr, head |-> rn.head, t |-> 0]]
    /\ pc' = "named"
    /\ UNCHANGED <<s, slen, salen, sa0, bucket, cur, pass, engine, s0, bkt, pat, data, remain>>

\* suffixes_from_substrs, the first loop of the else branch
Compact ==
    /\ pc = "named"
    /\ k + 1 # Len(sa) - cur
    /\ \E cp \in {compact(Slice(sa, 0, cur), 0, 0)} :
          /\ sa' = cp.head \o Slice(sa, cur, Len(sa))
          /\ res' = [op |-> "compact", val |-> [res.val EXCEPT !.t = cp.t]]
    /\ pc' = "compacted"
    /\ UNCHANGED <<s, slen, salen, sa0, bucket, cur, pass, k, engine, s0, bkt, pat, data, remain>>

\* the return of suffixes_from_substrs, computed from the halves it was handed
\* (the renaming starts by overwriting all of head, and nothing before the
\* call of sort writes to tail)
Return(path) ==
    \E sf \in {suffixes_from_substrs(s, Slice(sa, 0, cur), Slice(sa, cur, Len(sa)),
                                     inner_sort)} :
       /\ sa' = sf.head \o sf.tail
       /\ res' = [op |-> path, val |-> res.val]
       /\ pc' = "returned"
       /\ UNCHANGED <<s, slen, salen, sa0, bucket, cur, pass, k, engine, s0, bkt, pat,
                      data, remain>>

\* the branch k + 1 == tail.len()
ShortCircuit ==
    /\ pc = "named"
    /\ k + 1 = Len(sa) - cur
    /\ Return("short_circuit")

\* the call of sort and the rearrangement after it
SolveSubProblem ==
    /\ pc = "compacted"
    /\ Return("recursive")

NextReduce ==
    \/ SeedLms \/ SortSubstrs \/ RenameSubstrs \/ Compact \/ ShortCircuit
    \/ SolveSubProblem

SpecReduce == InitReduce /\ [][NextReduce]_vars

\* the lms substring that starts at i as the sequence of its (value, type)
\* pairs, a pair encoded as 2 * value + (1 for S-type, 0 for L-type)
LmsKey(str, i) ==
    [o \in 1..(LmsEnd(str, i) - i + 1) |->
        2 * CharAt(str, i + o - 1) + (IF IsSType(str, i + o - 1) THEN 1 ELSE 0)]
\* the lms positions below |s| in text order
LmsInTextOrder(str) ==
    LET L == LmsPositions(str)
    IN [r \in 1..Cardinality(L) |->
           CHOOSE i \in L : Cardinality({j \in L : j < i}) = r - 1]
(***************************************************************************)
(* transform_string as the inner engines call it: sacak_u32s and llhsais   *)
(* return before it on the empty string.  s0 keeps the string as handed    *)
(* in, sa0 the workspace.                                                  *)
(***************************************************************************)
\* the entry on the empty string
EnterEmpty ==
    /\ pc = "call"
    /\ Len(s) = 0
    /\ sa' = Put(sa, 0, 0)
    /\ pc' = "done"
    /\ UNCHANGED <<s, slen, salen, sa0, bucket, cur, pass, k, engine, s0,
                   bkt, pat, res, data, remain>>

TransformString ==
    /\ pc = "call"
    /\ Len(s) > 0
    /\ \E tr \in {transform_string(s, k, sa)} : s' = tr.s /\ sa' = tr.sa
    /\ pc' = "transformed"
    /\ UNCHANGED <<slen, salen, sa0, bucket, cur, pass, k, engine, s0,
                   bkt, pat, res, data, remain>>

\* the whole call of the engine, of which the state before is a part
SortTransformed ==
    /\ pc = "transformed"
    /\ \E r \in {IF engine = "llhsais" THEN llhsais(s0, k, sa0)
                  ELSE sacak_u32s(s0, k, sa0)} :
          s' = r.s /\ sa' = r.sa
    /\ pc' = "done"
    /\ UNCHANGED <<slen, salen, sa0, bucket, cur, pass, k, engine, s0,
                   bkt, pat, res, data, remain>>

NextTransform == EnterEmpty \/ TransformString \/ SortTransformed

SpecTransform == InitInts /\ [][NextTransform]_vars
(***************************************************************************)
(* The inner engines step by step: induce_by_lms of llhsais and of         *)
(* sacak_u32s one turn of the scan at a time, in the run that sorts the    *)
(* lms substrings (pass 1) and in the run that induces the array (pass 2). *)
(* cur is the scan cursor p.  res keeps a log of the scan under way:       *)
(* seen, the index entries the cursor has read, in order; ins, the calls   *)
(* of insert_head or insert_tail, in order; entry, from and at, the entry  *)
(* read in the last turn, where the cursor was and where it was after the  *)
(* insertion; before, the workspace the scan started from; shifts, the     *)
(* insertions that moved the cursor; flushed, the counters finish_head or  *)
(* finish_tail found.  Between the two runs sort_lms_suffixes goes step by  *)
(* step: cur is then h, where the workspace is split into head and tail,   *)
(* and remain the number of names.  data is the build of rename_substrs,   *)
(* which sacak_u32s calls: without or with the feature rayon.              *)
(***************************************************************************)
MaxScanLen == 5    \* longest integer string over [0, 3)
MaxScanLen2 == 7   \* longest string over {0, 1}
\* longer strings with repeated lms substrings, where the renaming under the
\* feature rayon writes a name into a cell that keeps its mark
PeriodicScanTexts ==
    {<<1, 0, 1, 0, 1, 0, 1, 1>>, Repeat(<<1, 0>>, 5) \o <<0>>,
     Repeat(<<1, 0, 1, 0, 0>>, 2)}
ScanTexts ==
    StringsUpTo(0..2, MaxScanLen) \cup StringsUpTo({0, 1}, MaxScanLen2)
        \cup PeriodicScanTexts

\* a cell that holds an index: not a mark, not a counter of sacak_u32s
is_index(x) ==
    IF engine = "llhsais" THEN x # EMPTY_LLH /\ x # UNIQUE /\ x # MULTI
    ELSE ULt(x, EMPTY_U32S)

\* a cell finish_head or finish_tail acts on: a MULTI mark in llhsais, a
\* counter in sacak_u32s (cell 0 is left out there)
is_counter(w, c) ==
    IF engine = "llhsais" THEN w[c] = MULTI
    ELSE c > 1 /\ ULt(EMPTY_U32S, w[c])

NoLog(w) == [seen |-> <<>>, ins |-> <<>>, entry |-> NoEntry, from |-> NoCursor,
             at |-> NoCursor, before |-> w, shifts |-> 0, flushed |-> 0]

InitScan ==
    /\ pc = "call"
    /\ engine \in {"llhsais", "sacak_u32s"}
    /\ s \in ScanTexts
    /\ k \in 0..Len(s)
    /\ \A j \in 1..Len(s) : s[j] < k
    /\ sa = Fill(Len(s) + 1, 0)
    /\ s0 = s
    /\ sa0 = sa
    /\ slen = Wide(Len(s))
    /\ salen = Wide(Len(sa))
    /\ bucket = NoBucket
    /\ cur = 0
    /\ pass = 0
    /\ bkt = NoTable
    /\ pat = <<>>
    /\ res = NoResult
    /\ data \in (IF engine = "sacak_u32s" THEN {"serial", "rayon"} ELSE {"serial"})
    /\ remain = 0

\* the entry and transform_string, which leaves the bucket array in the cells
\* 0..k of the workspace
EnterScan ==
    /\ pc = "call"
    /\ IF Len(s) = 0
       THEN sa' = Put(sa, 0, 0) /\ pc' = "done" /\ UNCHANGED s
       ELSE \E tr \in {transform_string(s, k, sa)} :
               s' = tr.s /\ sa' = tr.sa /\ pc' = "seed"
    /\ UNCHANGED <<slen, salen, sa0, bucket, cur, pass, k, engine, s0,
                   bkt, pat, res, data, remain>>

\* sort_lms_suffixes, step 1
SeedScan ==
    /\ pc = "seed"
    /\ \E w \in {IF engine = "llhsais" THEN llh_seed_lms(s, sa)
                 ELSE u32s_seed_lms(s, sa)} :
          sa' = w
    /\ pass' = 1
    /\ pc' = "prepare_l"
    /\ UNCHANGED <<s, slen, salen, sa0, bucket, cur, k, engine, s0,
                   bkt, pat, res, data, remain>>

\* induce_by_lms, the start of step 1: let mut p = 0, and prepare_typed in
\* llhsais
PrepareL ==
    /\ pc = "prepare_l"
    /\ \E w \in {IF engine = "llhsais" THEN prepare_typed(s, sa, FALSE) ELSE sa} :
          sa' = w /\ res' = [op |-> "prepare_l", val |-> NoLog(sa)]
    /\ cur' = 0
    /\ pc' = "scan_l"
    /\ UNCHANGED <<s, slen, salen, sa0, bucket, pass, k, engine, s0,
                   bkt, pat, data, remain>>

\* the log after a turn that read the cell at cur and returned r
turn(r) ==
    [seen |-> IF is_index(At(sa, cur)) /\ r.at # NoCursor
              THEN Append(res.val.seen, At(sa, cur)) ELSE res.val.seen,
     ins |-> IF r.call # NoEntry THEN Append(res.val.ins, r.call) ELSE res.val.ins,
     entry |-> IF is_index(At(sa, cur)) /\ r.at # NoCursor THEN At(sa, cur)
               ELSE NoEntry,
     from |-> cur, at |-> r.at, before |-> res.val.before,
     shifts |-> IF r.at # NoCursor /\ r.at # cur THEN res.val.shifts + 1
                ELSE res.val.shifts,
     flushed |-> 0]

\* one turn of while p < sa.len()
StepL ==
    /\ pc = "scan_l"
    /\ cur < Len(sa)
    /\ \E r \in {IF engine = "llhsais" THEN llh_step_l(s, sa, cur)
                 ELSE u32s_step_l(s, sa, cur)} :
          /\ sa' = r.sa
          /\ cur' = r.p
          /\ res' = [op |-> "step_l", val |-> turn(r)]
    /\ UNCHANGED <<pc, s, slen, salen, sa0, bucket, pass, k, engine, s0,
                   bkt, pat, data, remain>>

\* the end of the scan and finish_head
FinishHead ==
    /\ pc = "scan_l"
    /\ cur >= Len(sa)
    /\ sa' = IF engine = "llhsais" THEN llh_finish_head(sa) ELSE u32s_finish_head(sa)
    /\ res' = [op |-> "finish_head",
               val |-> [res.val EXCEPT
                           !.flushed = Cardinality({c \in 1..Len(sa) :
                                                       is_counter(sa, c)})]]
    /\ pc' = "clear_lms"
    /\ UNCHANGED <<s, slen, salen, sa0, bucket, cur, pass, k, engine, s0,
                   bkt, pat, data, remain>>

\* step 2 and the start of step 3: clear_lms, let mut p = sa.len() - 1, and
\* prepare_typed in llhsais
ClearLms ==
    /\ pc = "clear_lms"
    /\ \E c \in {IF engine = "llhsais" THEN llh_clear_lms(s, sa)
                 ELSE u32s_clear_lms(s, sa)} :
          /\ sa' = IF engine = "llhsais" THEN prepare_typed(s, c, TRUE) ELSE c
          /\ res' = [op |-> "clear_lms", val |-> NoLog(c)]
    /\ cur' = Len(sa) - 1
    /\ pc' = "scan_s"
    /\ UNCHANGED <<s, slen, salen, sa0, bucket, pass, k, engine, s0,
                   bkt, pat, data, remain>>

\* one turn of while p > 0
StepS ==
    /\ pc = "scan_s"
    /\ cur > 0
    /\ \E r \in {IF engine = "llhsais" THEN llh_step_s(s, sa, cur)
                 ELSE u32s_step_s(s, sa, cur)} :
          /\ sa' = r.sa
          /\ cur' = r.p
          /\ res' = [op |-> "step_s", val |-> turn(r)]
    /\ UNCHANGED <<pc, s, slen, salen, sa0, bucket, pass, k, engine, s0,
                   bkt, pat, data, remain>>

\* the end of the scan and finish_tail
FinishTail ==
    /\ pc = "scan_s"
    /\ cur <= 0
    /\ sa' = IF engine = "llhsais" THEN llh_finish_tail(sa) ELSE u32s_finish_tail(sa)
    /\ res' = [op |-> "finish_tail",
               val |-> [res.val EXCEPT
                           !.flushed = Cardinality({c \in 1..Len(sa) :
                                                       is_counter(sa, c)})]]
    /\ pc' = IF pass = 1 THEN "sort" ELSE "done"
    /\ UNCHANGED <<s, slen, salen, sa0, bucket, cur, pass, k, engine, s0,
                   bkt, pat, data, remain>>

\* sort_lms_suffixes, step 3: the sorted lms substrings are gathered at the end
\* of the workspace; cur becomes h, where the workspace is split into head
\* and tail
CollectLms ==
    /\ pc = "sort"
    /\ \E cl \in {IF engine = "llhsais" THEN llh_collect(s, sa)
                  ELSE u32s_collect(s, sa)} :
          sa' = cl.sa /\ cur' = cl.h
    /\ pc' = "collected"
    /\ UNCHANGED <<s, slen, salen, sa0, bucket, pass, k, engine, s0,
                   bkt, pat, res, data, remain>>

\* the renaming without the feature rayon: head is filled with 0xffffffff
\* (EMPTY in llhsais, which has the loop in line; not the EMPTY of sacak_u32s,
\* which calls rename_substrs) and the names are written; remain becomes k,
\* the number of names
RenameLms ==
    /\ pc = "collected"
    /\ engine = "llhsais" \/ data = "serial"
    /\ \E rn \in {rename_substrs(s, Slice(sa, 0, cur), Slice(sa, cur, Len(sa)))} :
          /\ sa' = rn.head \o Slice(sa, cur, Len(sa))
          /\ remain' = rn.k
    /\ pc' = "named"
    /\ UNCHANGED <<s, slen, salen, sa0, bucket, cur, pass, k, engine, s0,
                   bkt, pat, res, data>>

\* the renaming of sacak_u32s under the feature rayon, up to the join of the
\* sweep: head is filled with 0xffffffff and the task of each cell of
\* head[1..] that found its two substrings different has written 0x7fffffff
\* (the interleavings of the tasks are the states of SpecRename)
SweepLms ==
    /\ pc = "collected"
    /\ engine = "sacak_u32s"
    /\ data = "rayon"
    /\ \E tail \in {Slice(sa, cur, Len(sa))} :
          sa' = [c \in 1..Len(sa) |->
                    IF c > cur THEN sa[c]
                    ELSE IF c - 1 \in 1..Min2(cur - 1, Len(tail) - 1)
                            /\ ~lms_substr_eq(s, At(tail, c - 1), At(tail, c - 2))
                    THEN Low31 ELSE NIL32]
    /\ pc' = "marked"
    /\ UNCHANGED <<s, slen, salen, sa0, bucket, cur, pass, k, engine, s0,
                   bkt, pat, res, data, remain>>

\* its renaming loop: a word below 2^31 in head[p] starts a new name, and the
\* name k - 1 goes to head[tail[p] / 2], keeping bit 31 of that cell when the
\* cell is one the sweep has marked; a word with bit 31 set is the negative
\* number 32 bits make of it, so that 0x80000000 | name is name - 2^31
TagLms ==
    /\ pc = "marked"
    /\ LET m == Len(sa) - cur
           RECURSIVE rename(_, _, _)
           rename(w, p, kk) ==
               IF p >= m THEN [sa |-> w, k |-> kk]
               ELSE LET k1 == IF At(w, p) >= 0 THEN kk + 1 ELSE kk
                        i == At(w, cur + p) \div 2
                    IN rename(Put(w, i,
                                  IF i = 0 \/ i >= m \/ At(w, i) >= 0
                                  THEN k1 - 1
                                  ELSE (k1 - 1) - Low31 - 1),
                              p + 1, k1)
       IN \E rn \in {rename(sa, 1, 0)} :
             sa' = rn.sa /\ remain' = rn.k
    /\ pc' = "tagged"
    /\ UNCHANGED <<s, slen, salen, sa0, bucket, cur, pass, k, engine, s0,
                   bkt, pat, res, data>>

\* its last loop: head[p] & 0x7fffffff, or 0xffffffff when that is 0x7fffffff
StripLms ==
    /\ pc = "tagged"
    /\ LET m == Len(sa) - cur
           idx(w) == IF w < 0 THEN (w + Low31) + 1 ELSE w
       IN sa' = [c \in 1..Len(sa) |->
                    IF c - 1 \in 1..(m - 1)
                    THEN (IF idx(sa[c]) = Low31 THEN NIL32 ELSE idx(sa[c]))
                    ELSE sa[c]]
    /\ pc' = "named"
    /\ UNCHANGED <<s, slen, salen, sa0, bucket, cur, pass, k, engine, s0,
                   bkt, pat, res, data, remain>>

\* the branch k + 1 == tail.len(): tail is copied over the start of head
ShortCircuitLms ==
    /\ pc = "named"
    /\ remain + 1 = Len(sa) - cur
    /\ sa' = copy_tail_to_head(Slice(sa, 0, cur), Slice(sa, cur, Len(sa)))
                 \o Slice(sa, cur, Len(sa))
    /\ pc' = "sorted"
    /\ UNCHANGED <<s, slen, salen, sa0, bucket, cur, pass, k, engine, s0,
                   bkt, pat, res, data, remain>>

\* the other branch, its first loop: the names move to the front of head
CompactLms ==
    /\ pc = "named"
    /\ remain + 1 # Len(sa) - cur
    /\ \E cp \in {compact(Slice(sa, 0, cur), 0, 0)} :
          sa' = cp.head \o Slice(sa, cur, Len(sa))
    /\ pc' = "compacted"
    /\ UNCHANGED <<s, slen, salen, sa0, bucket, cur, pass, k, engine, s0,
                   bkt, pat, res, data, remain>>

\* the recursive call on (head[..t], k, tail) and the rearrangement after it,
\* computed from the halves the renaming was handed (the renaming starts by
\* overwriting all of head, and nothing before the call writes to tail)
SolveLms ==
    /\ pc = "compacted"
    /\ \E sf \in {suffixes_from_substrs(s, Slice(sa, 0, cur),
                                        Slice(sa, cur, Len(sa)), engine)} :
          sa' = sf.head \o sf.tail
    /\ pc' = "sorted"
    /\ UNCHANGED <<s, slen, salen, sa0, bucket, cur, pass, k, engine, s0,
                   bkt, pat, res, data, remain>>

\* the last step of sort_lms_suffixes, and the call of the second
\* induce_by_lms
PlaceLms ==
    /\ pc = "sorted"
    /\ sa' = IF engine = "llhsais" THEN llh_place(s, sa, Len(sa) - cur)
             ELSE u32s_place(s, sa, Len(sa) - cur)
    /\ pass' = 2
    /\ pc' = "prepare_l"
    /\ UNCHANGED <<s, slen, salen, sa0, bucket, cur, k, engine, s0,
                   bkt, pat, res, data, remain>>

NextScan ==
    \/ EnterScan \/ SeedScan \/ PrepareL \/ StepL \/ FinishHead \/ ClearLms \/ StepS
    \/ FinishTail \/ CollectLms \/ RenameLms \/ SweepLms \/ TagLms \/ StripLms
    \/ ShortCircuitLms \/ CompactLms \/ SolveLms \/ PlaceLms

SpecScan == InitScan /\ [][NextScan]_vars
(***************************************************************************)
(* rename_substrs under the feature rayon (construct/utils.rs): the        *)
(* parallel sweep of equality marks, one task per cell of head[1..], then  *)
(* the serial renaming and the stripping of the marks.  A cell of head is  *)
(* a 32-bit word kept as [hi, lo]: hi is bit 31 and lo the low 31 bits.    *)
(* sa is head, sa0 the workspace at the call, cur the split point, remain  *)
(* the tasks not yet started, data the tasks that compared and have not    *)
(* written yet, pass the loop index p.                                     *)
(***************************************************************************)
MaxRenameLen2 == 8   \* longest string over {a, b}
MaxRenameLen3 == 5   \* longest string over {0, a, 255}
RenameTexts ==
    ((StringsUpTo(Bytes2, MaxRenameLen2) \cup StringsUpTo(Bytes3, MaxRenameLen3))
        \ {<<>>}) \cup PeriodicTexts

\* 0xffffffff: unnamed, and "equal to the previous substring" during the sweep
MarkEq == [hi |-> 1, lo |-> Low31]
\* 0x7fffffff: "differs from the previous substring"
MarkNe == [hi |-> 0, lo |-> Low31]

\* the word as the serial renaming would hold it: NIL32 for 0xffffffff, the
\* name for a word below 2^31, and a value no name equals for any other word
plain_word(w) ==
    IF w.hi = 0 THEN w.lo
    ELSE IF w.lo = Low31 THEN NIL32 ELSE -2 - w.lo

\* a renaming step that overwrites the whole word
rayon_name_cell_plain(w, i, m, name) == [hi |-> 0, lo |-> name]

\* the write of the name k - 1 into head[i], m being tail.len()
rayon_name_cell(w, i, m, name) ==
    IF i = 0 \/ i >= m THEN [hi |-> 0, lo |-> name]
    ELSE [hi |-> w.hi, lo |-> name]

\* the last loop: head[p] & 0x7fffffff, or 0xffffffff when that is 0x7fffffff
rayon_strip_cell(w) ==
    IF w.lo = Low31 THEN MarkEq ELSE [hi |-> 0, lo |-> w.lo]

\* the halves suffixes_from_substrs is handed at level 0
rename_tail == Slice(sa0, cur, Len(sa0))
rename_head0 == Slice(sa0, 0, cur)
\* the tasks of the sweep, named by the cell of head they are handed:
\* head[1..] zipped with tail[1..] and tail
sweep_tasks == 1..Min2(cur - 1, Len(rename_tail) - 1)
\* the tasks that have written
sweep_done == {p \in sweep_tasks : p \notin remain /\ \A d \in data : d[1] # p}

InitRename ==
    /\ pc = "call"
    /\ engine = "rayon"
    /\ s \in RenameTexts
    /\ \E calls \in {[j \in 1..Len(for_each_lms(s, FALSE)) |->
                         for_each_lms(s, FALSE)[j][1]]} :
       \E sd \in {seed_lms_in(Bucket_compute(s), s, Fill(Len(s) + 1, 0), calls)} :
       \E r \in {induce_by_lms(sd.bkt, s, sd.sa)} :
       \E cl \in {collect(r.bkt, s, r.sa)} :
          /\ sa0 = cl.sa
          /\ cur = cl.h
          /\ bucket = r.bkt
    /\ sa = rename_head0
    /\ s0 = s
    /\ slen = Wide(Len(s))
    /\ salen = Wide(Len(sa0))
    /\ pass = 0
    /\ k = 0
    /\ bkt = NoTable
    /\ pat = <<>>
    /\ res = NoResult
    /\ data = {}
    /\ remain = {}

\* head.iter_mut().for_each(|i| *i = 0xffffffff) and the start of the sweep
FillHead ==
    /\ pc = "call"
    /\ sa' = Fill(cur, MarkEq)
    /\ remain' = sweep_tasks
    /\ pc' = "sweep"
    /\ UNCHANGED <<s, slen, salen, sa0, bucket, cur, pass, k, engine, s0, bkt, pat,
                   res, data>>

\* a task of the sweep reads s and its two cells of tail
Compare(p) ==
    /\ pc = "sweep"
    /\ p \in remain
    /\ remain' = remain \ {p}
    /\ data' = data \cup {<<p, lms_substr_eq(s, At(rename_tail, p),
                                              At(rename_tail, p - 1))>>}
    /\ UNCHANGED <<pc, s, sa, slen, salen, sa0, bucket, cur, pass, k, engine, s0,
                   bkt, pat, res>>

\* and writes its own cell when the substrings differ
WriteMark(d) ==
    /\ pc = "sweep"
    /\ d \in data
    /\ data' = data \ {d}
    /\ sa' = IF d[2] THEN sa ELSE Put(sa, d[1], MarkNe)
    /\ UNCHANGED <<pc, s, slen, salen, sa0, bucket, cur, pass, k, engine, s0, bkt,
                   pat, res, remain>>

\* the end of the parallel for_each; val counts the names written into a cell
\* whose mark is still to be read (fwd), those of them with bit 31 set (kept)
Join ==
    /\ pc = "sweep"
    /\ remain = {}
    /\ data = {}
    /\ pc' = "rename"
    /\ pass' = 1
    /\ k' = 0
    /\ res' = [op |-> "sweep", val |-> [marks |-> sa, fwd |-> 0, kept |-> 0]]
    /\ UNCHANGED <<s, sa, slen, salen, sa0, bucket, cur, engine, s0, bkt, pat, data,
                   remain>>

\* an iteration of the renaming loop
RenameStep ==
    /\ pc = "rename"
    /\ pass < Len(rename_tail)
    /\ \E k1 \in {IF At(sa, pass).hi = 0 THEN k + 1 ELSE k} :
       \E i \in {At(rename_tail, pass) \div 2} :
          /\ k' = k1
          /\ sa' = Put(sa, i, rayon_name_cell(At(sa, i), i, Len(rename_tail), k1 - 1))
          /\ res' = [op |-> "rename",
                     val |-> [res.val EXCEPT
                        !.fwd = @ + (IF i > pass /\ i < Len(rename_tail) THEN 1 ELSE 0),
                        !.kept = @ + (IF i > pass /\ i < Len(rename_tail)
                                         /\ At(sa, i).hi = 1 THEN 1 ELSE 0)]]
    /\ pass' = pass + 1
    /\ UNCHANGED <<pc, s, slen, salen, sa0, bucket, cur, engine, s0, bkt, pat, data,
                   remain>>

\* the end of the renaming loop
EndRename ==
    /\ pc = "rename"
    /\ pass >= Len(rename_tail)
    /\ pc' = "strip"
    /\ pass' = 1
    /\ UNCHANGED <<s, sa, slen, salen, sa0, bucket, cur, k, engine, s0, bkt, pat,
                   res, data, remain>>

\* an iteration of the last loop
StripStep ==
    /\ pc = "strip"
    /\ pass < Len(rename_tail)
    /\ sa' = Put(sa, pass, rayon_strip_cell(At(sa, pass)))
    /\ pass' = pass + 1
    /\ UNCHANGED <<pc, s, slen, salen, sa0, bucket, cur, k, engine, s0, bkt, pat,
                   res, data, remain>>

\* the return of k
EndStrip ==
    /\ pc = "strip"
    /\ pass >= Len(rename_tail)
    /\ pc' = "done"
    /\ UNCHANGED <<s, sa, slen, salen, sa0, bucket, cur, pass, k, engine, s0, bkt,
                   pat, res, data, remain>>

NextRename ==
    \/ FillHead
    \/ \E p \in 1..(MaxRenameLen2 + 4) : Compare(p)
    \/ \E d \in (1..(MaxRenameLen2 + 4)) \X BOOLEAN : WriteMark(d)
    \/ Join \/ RenameStep \/ EndRename \/ StripStep \/ EndStrip

SpecRename == InitRename /\ [][NextRename]_vars

(***************************************************************************)
(* The properties checked.                                                 *)
(***************************************************************************)
\* the positions of the string str at which the pattern p occurs
Occurrences(str, p) ==
    {i \in 0..Len(str) :
        Len(p) <= Len(str) - i /\ SubSeq(str, i + 1, i + Len(p)) = p}

\* the length of the longest common prefix of x and y, as a maximum
LongestCommon(x, y) ==
    CHOOSE m \in 0..Min2(Len(x), Len(y)) :
        /\ SubSeq(x, 1, m) = SubSeq(y, 1, m)
        /\ \A n \in (m + 1)..Min2(Len(x), Len(y)) : SubSeq(x, 1, n) # SubSeq(y, 1, n)

\* C1: once saca / sacak0 / sais_bytes has built the array of a byte string S
\* of length n in an (n+1)-cell workspace, every cell is an index of S, for
\* every i in 1..=n the suffix at SA[i-1] is strictly smaller than the suffix at
\* SA[i] (a proper prefix being the smaller), and SA is the array a naive sort
\* of the n+1 suffixes gives.
C1_Sortedness ==
    pc = "done" =>
        /\ Len(sa) = Len(s) + 1
        /\ \A j \in 1..Len(sa) : sa[j] \in 0..Len(s)
        /\ \A i \in 1..Len(s) : SeqLess(Suffix(s, sa[i]), Suffix(s, sa[i + 1]))
        /\ sa = naive_sort(s)

\* a construction by sacak0 finished after a recursive call sorted the lms
\* suffixes (fewer names than lms substrings)
C1_Witness == pc = "done" /\ engine = "saca" /\ k + 1 < cur /\ Len(s) >= 6

\* C2: the constructed array of a byte string of length n lists every index of
\* 0..=n exactly once, holds no tag value, and starts with n; the array of the
\* empty string is [0].
C2_Permutation ==
    pc = "done" =>
        /\ Len(sa) = Len(s) + 1
        /\ {sa[j] : j \in 1..Len(sa)} = 0..Len(s)
        /\ sa[1] = Len(s)
        /\ (s = <<>> => sa = <<0>>)

\* a construction by sais_bytes finished on a string over three letters, in a
\* workspace that held other values
C2_Witness ==
    /\ pc = "done"
    /\ engine = "sais_bytes"
    /\ Len(s) = MaxLen3
    /\ 255 \in {s[j] : j \in 1..Len(s)}
    /\ sa0[1] # 0

\* C3: llhsais / sacak_u32s called on an integer string s over [0, k), k <= |s|,
\* with an (|s|+1)-cell workspace leaves in the workspace the array a naive
\* suffix sort of the string as it was before the call gives; |s| = 0 and
\* |s| = 1 included.
C3_InnerEngines == pc = "done" => sa = naive_sort(s0)

\* an inner engine finished on a string of two letters that it rewrote
C3_Witness == pc = "done" /\ Len(s0) >= 6 /\ s # s0 /\ k = 2

\* C4: contains(P) is true exactly when P is a prefix of some suffix S[i..],
\* i in 0..=|S|; the empty pattern and patterns longer than S included.
C4_Contains == res.op = "contains" => (res.val <=> Occurrences(s, pat) # {})

\* contains answered true for a pattern of two bytes or more
C4_Witness == res.op = "contains" /\ res.val /\ Len(pat) >= 2

\* C5: the slice search_all(P) returns holds, without duplicates, exactly the
\* indices i in 0..=|S| at which P is a prefix of S[i..]: all |S|+1 indices for
\* the empty pattern, none for a pattern longer than S.
C5_SearchAll ==
    res.op = "search_all" =>
        /\ {res.val[j] : j \in 1..Len(res.val)} = Occurrences(s, pat)
        /\ Len(res.val) = Cardinality(Occurrences(s, pat))
        /\ (pat = <<>> => Len(res.val) = Len(s) + 1)
        /\ (Len(pat) > Len(s) => res.val = <<>>)

\* search_all answered with two occurrences or more of a pattern that is not
\* empty
C5_Witness == res.op = "search_all" /\ Len(res.val) >= 2 /\ Len(pat) >= 1

\* C6: search_lcp(P) returns a range [j, j+l) inside 0..=|S| such that
\* S[j..j+l] is a prefix of P and l is the largest common-prefix length of P and
\* any suffix S[i..]; with the bucket table and without.
C6_SearchLcp ==
    res.op = "search_lcp" =>
        /\ res.val[1] \in 0..Len(s)
        /\ res.val[2] \in res.val[1]..Len(s)
        /\ res.val[2] - res.val[1] <= Len(pat)
        /\ SubSeq(s, res.val[1] + 1, res.val[2])
              = SubSeq(pat, 1, res.val[2] - res.val[1])
        /\ \A i \in 0..Len(s) :
              LongestCommon(pat, Suffix(s, i)) <= res.val[2] - res.val[1]

\* search_lcp answered with the bucket table enabled for a pattern that does
\* not occur, a prefix of two bytes or more of which does
C6_Witness ==
    /\ res.op = "search_lcp"
    /\ bkt # NoTable
    /\ Occurrences(s, pat) = {}
    /\ res.val[2] - res.val[1] >= 2

\* C7: contains(P), search_all(P) and search_lcp(P) each return the same answer
\* on a suffix array on which enable_buckets has been called as on one on which
\* it has not.
C7_SameAnswers ==
    /\ res.op = "contains" => res.val = contains(s, sa, NoTable, pat)
    /\ res.op = "search_all" => res.val = search_all(s, sa, NoTable, pat)
    /\ res.op = "search_lcp" => res.val = search_lcp(s, sa, NoTable, pat)

\* C8: from_parts(S, V) returns for every vector V of 32-bit words: Some if and
\* only if V has |S|+1 entries and lists the suffixes of S in strictly
\* ascending order, None otherwise; it never aborts.
C8_FromParts ==
    /\ pc # "abort"
    /\ pc = "done" =>
          (res.val = "Some" <=>
              /\ Len(sa) = Len(s) + 1
              /\ \A j \in 1..Len(sa) : sa[j] \in 0..Len(s)
              /\ \A i \in 1..Len(s) : SeqLess(Suffix(s, sa[i]), Suffix(s, sa[i + 1])))

\* the preconditions of the entry point called: |S| <= MAX_LENGTH of the
\* engine's module and |SA| = |S| + 1
PreOk ==
    /\ WideLe(slen, IF engine = "saca" THEN <<65535, 65532>> ELSE <<32767, 65535>>)
    /\ salen = WideSucc(slen)

\* C9: saca checks its preconditions before any work: if |SA| # |S|+1 or
\* |S| > MAX_LENGTH the call aborts and no cell of SA has been written; if both
\* hold the call never aborts: it is at one of the steps of the construction,
\* each of which ends, or it is done.
C9_Preconditions ==
    engine \in {"saca", "saca_dss"} =>
        /\ ~PreOk => pc \in {"call", "abort"} /\ sa = sa0
        /\ PreOk => /\ pc # "abort"
                    /\ pc \in {"call", "induce_l", "clear_tails", "induce_s",
                               "collect", "reduce", "place", "done"}
                    /\ (pc = "done" => Len(sa) = Len(s) + 1 /\ sa[1] = Len(s))

\* construct::saca aborted on a workspace of the wrong length that holds cells
C9_Witness == pc = "abort" /\ engine = "saca" /\ Len(sa) > 0 /\ sa = sa0

\* C10: for every valid suffix array, lengths 1, 128 c and 128 c + 1 included,
\* from_sa(SA).into_sa() returns and gives back SA, also when the encoder cut
\* zero bytes off the final chunk.
C10_RoundTrip ==
    /\ pc # "abort"
    /\ pc = "done" => res = sa0

\* C11: loading a packed suffix array never aborts: another magic word, a
\* payload too short or too long for the length field, or a decoded array
\* that is not the suffix array of the string each give an error value.
C11_LoadReturns ==
    /\ pc # "abort"
    /\ pc = "done" =>
          (res.val = "Ok" <=> sa = naive_sort(s))

\* C15: decoding ends for every packed array the encoder produced, the array of
\* length 1 included: whenever the loop of into_sa is about to run an
\* iteration, that iteration takes bytes off the payload, so that the loop is
\* left and into_sa returns.
C15_DecodeEnds ==
    (pc = "decoding" /\ Len(data.data) - cur >= u8_chunk_size(data.length))
        => u8_chunk_size(data.length) > 0

\* C12: on a suffix array built by new(S) every query returns a defined value
\* for every pattern, with or without the bucket table: no query aborts,
\* contains gives a boolean, search_all a list of positions of S, and
\* search_lcp a range of S.
C12_QueriesTotal ==
    /\ pc # "abort"
    /\ res.op = "contains" => res.val \in BOOLEAN
    /\ res.op = "search_all" =>
          \A j \in 1..Len(res.val) : res.val[j] \in 0..Len(s)
    /\ res.op = "search_lcp" =>
          /\ res.val[1] \in 0..Len(s)
          /\ res.val[2] \in res.val[1]..Len(s)

\* a query answered with the table enabled for a pattern longer than the text
\* whose first byte does not occur in it
C12_Witness ==
    /\ pc = "answered"
    /\ bkt # NoTable
    /\ Len(pat) > Len(s)
    /\ Len(s) >= 1
    /\ \A j \in 1..Len(s) : s[j] # pat[1]

\* the values of a list without repetitions, in ascending order
SortedAscending(xs) ==
    Tup([r \in 1..Len(xs) |->
            CHOOSE v \in {xs[j] : j \in 1..Len(xs)} :
                Cardinality({w \in {xs[j] : j \in 1..Len(xs)} : w < v}) = r - 1],
        Len(xs))

\* C13 as the specification states it: for S = "mmississiippii" the result of
\* search_all("i"), sorted ascending, is [1, 4, 7, 10, 11, 13].
C13_ExampleAsStated ==
    (s = ExampleText /\ res.op = "search_all" /\ pat = <<105>>) =>
        SortedAscending(res.val) = <<1, 4, 7, 10, 11, 13>>

\* C13: for S = "mmississiippii" the result of search_all("i"), sorted
\* ascending, is [2, 5, 8, 9, 12, 13], the positions of the byte i in S.
C13_Example ==
    (s = ExampleText /\ res.op = "search_all" /\ pat = <<105>>) =>
        SortedAscending(res.val) = <<2, 5, 8, 9, 12, 13>>

\* search_all("i") answered on the example text with the bucket table enabled
C13_Witness ==
    /\ s = ExampleText
    /\ res.op = "search_all"
    /\ pat = <<105>>
    /\ bkt # NoTable
    /\ Len(res.val) = 6

\* C14: after any sequence of new, set, fit and enable_buckets the value keeps
\* its integrity: the array has len() + 1 entries and lists the suffixes of the
\* stored string in ascending order, an enabled bucket table is that of the
\* stored string, and len() is the length of the string last set.
C14_ValueIntegrity ==
    /\ Len(sa) = Len(s) + 1
    /\ check_integrity(s, sa) = "true"
    /\ bkt # NoTable => bkt = enable_buckets(s, NoTable)
    /\ Len(s) = Len(s0)
    /\ res.op = "len" => res.val = Len(s0)

\* C16: whenever suffixes_from_substrs invokes the inner sorter, at any depth of
\* a construction, the reduced string is at most half as long as its parent,
\* the alphabet scale passed is at most the length of the reduced string, the
\* workspace passed has one cell more than the reduced string, and the depth
\* reached is at most log2 of the length of the outermost string; no inner call
\* fails its entry assertions.
C16_WellFounded ==
    /\ pc # "abort"
    /\ (pc = "call" /\ pass > 0) =>
           /\ Len(s) <= remain \div 2
           /\ k <= Len(s)
           /\ Len(sa) = Len(s) + 1
           /\ 2 ^ pass <= Len(s0)

\* a second-level invocation: the reduced string of a reduced string
C16_Witness == pc = "call" /\ pass = 2 /\ Len(s) > 0 /\ Len(s) < remain

\* C17: on every pair of lms positions of a string, the sentinel included and
\* in either order, lms_substr_eq answers whether the two lms substrings have
\* the same length, characters and types (so true for i = j, false when one
\* of the two is the sentinel), and the comparison over the type bitmap gives
\* the same answer.
C17_LmsSubstrEq ==
    res.op = "lms_substr_eq" =>
        /\ res.val.free = SameLmsSubstring(s, res.val.i, res.val.j)
        /\ res.val.bitmap = (IF res.val.free THEN "true" ELSE "false")

\* C18: on a string of one character or more for_each_lms calls f once for
\* each lms position and for no other position below |s|, in strictly
\* decreasing order and with the character at the position, after the call
\* f(|s|, 0) when the sentinel is asked for; and the positions below |s| it
\* visits are those the type bitmap classifies as lms.
C18_ForEachLms ==
    res.op = "for_each_lms" =>
        LET calls == res.val.calls
            first == IF res.val.sentinel THEN 2 ELSE 1
        IN /\ res.val.sentinel => (Len(calls) >= 1 /\ calls[1] = <<Len(s), 0>>)
           /\ \A x \in first..Len(calls) :
                  /\ calls[x][1] \in LmsPositions(s)
                  /\ calls[x][2] = At(s, calls[x][1])
                  /\ x > first => calls[x][1] < calls[x - 1][1]
           /\ LmsPositions(s) = {calls[x][1] : x \in first..Len(calls)}
           /\ LmsPositions(s) = res.val.bitmap \ {Len(s)}

\* the entries of a sequence that lie in a set, in the order of the sequence
RECURSIVE Among(_, _)
Among(xs, S) ==
    IF xs = <<>> THEN <<>>
    ELSE (IF Head(xs) \in S THEN <<Head(xs)>> ELSE <<>>) \o Among(Tail(xs), S)

\* the positions of character c of one type, in ascending suffix order
TypedOrder(str, c, stype) ==
    LET ordered(P) == IF P = {} THEN <<>> ELSE Among(naive_sort(str), P)
    IN ordered({i \in 0..(Len(str) - 1) : At(str, i) = c /\ IsSType(str, i) = stype})

\* C19: in the final induction of level 0, after phase L the cells from the
\* head of the bucket of each byte c up to its l-pointer hold exactly the
\* L-type positions of character c in ascending suffix order, and after phase
\* S the cells from its s-pointer up to the tail of the bucket hold exactly
\* the S-type positions of character c in ascending suffix order.
C19_InducedBuckets ==
    /\ (pc = "clear_tails" /\ pass = 2) =>
           \A c \in 0..255 :
              Slice(sa, At(bucket.bounds, c), get_l_ptr(bucket, c))
                  = TypedOrder(s, c, FALSE)
    /\ (pc = "done" /\ pass = 2) =>
           \A c \in 0..255 :
              Slice(sa, get_s_ptr(bucket, c), get_tail_ptr(bucket, c))
                  = TypedOrder(s, c, TRUE)

\* a finished final induction on a string in which one character has two
\* L-type and two S-type positions
C19_Witness ==
    /\ pc = "done"
    /\ pass = 2
    /\ \E c \in Bytes2 : Len(TypedOrder(s, c, FALSE)) >= 2
                            /\ Len(TypedOrder(s, c, TRUE)) >= 2

\* C20: in phase S of level 0, in both induction passes, whenever the scan
\* reads at cell i a position j > 0 with s[j - 1] = s[j] = c, the l-pointer of
\* c is not i, and j - 1 is S-type exactly when the l-pointer is below i.
C20_EqualCharacterTest ==
    res.op = "induce_s" =>
        \A e \in res.val :
           /\ e[3] # e[1]
           /\ IsSType(s, e[2] - 1) <=> e[3] < e[1]

\* a first-pass phase S that met equal characters both at an S-type and at an
\* L-type position
C20_Witness ==
    /\ res.op = "induce_s"
    /\ pc = "collect"
    /\ \E e \in res.val : IsSType(s, e[2] - 1)
    /\ \E e \in res.val : ~IsSType(s, e[2] - 1)

\* C21: at every step of the level-0 construction the pointers of every byte c
\* satisfy bound[c] <= p[c] <= q[c] <= bound[c+1], and every insert_head and
\* insert_tail (of the seeding, of both induction passes and of the
\* re-insertion of the sorted lms suffixes) writes a cell of the bucket of its
\* own character, not cell 0, that held EMPTY.
C21_BucketPointers ==
    /\ bucket # NoBucket =>
           \A c \in 0..255 :
              /\ At(bucket.bounds, c) <= get_l_ptr(bucket, c)
              /\ get_l_ptr(bucket, c) <= get_s_ptr(bucket, c)
              /\ get_s_ptr(bucket, c) <= get_tail_ptr(bucket, c)
    /\ res.op \in {"seed_lms", "induce_l", "induce_s", "place_sorted"} =>
           \A e \in res.wr :
              /\ e.lo <= e.p /\ e.p <= e.q /\ e.q <= e.hi
              /\ e.lo <= e.cell /\ e.cell < e.hi
              /\ e.cell # 0
              /\ e.old = EMPTY

\* a finished construction in which the two pointers of a bucket met inside
\* the bucket, after insertions at its head and at its tail
C21_Witness ==
    /\ pc = "done"
    /\ pass = 2
    /\ \E c \in Bytes2 :
          /\ get_l_ptr(bucket, c) = get_s_ptr(bucket, c)
          /\ At(bucket.bounds, c) + 1 < get_l_ptr(bucket, c)
          /\ get_s_ptr(bucket, c) + 1 < get_tail_ptr(bucket, c)
    /\ res.op = "induce_s"
    /\ Cardinality(res.wr) >= 2

\* C22: the step clear_tails sets to EMPTY the cells from the s-pointer up to
\* the tail of each bucket and resets every s-pointer to the tail of its
\* bucket; cell 0, every other cell, the l-pointers and the bounds stay as
\* they were.
C22_ClearTailsFrame ==
    [][pc = "clear_tails" =>
          /\ bucket'.bounds = bucket.bounds
          /\ bucket'.ps = bucket.ps
          /\ \A c \in 0..255 : get_s_ptr(bucket', c) = get_tail_ptr(bucket, c)
          /\ Len(sa') = Len(sa)
          /\ At(sa', 0) = At(sa, 0)
          /\ \A j \in 0..(Len(sa) - 1) :
                 At(sa', j) =
                     IF \E c \in 0..255 : /\ get_s_ptr(bucket, c) <= j
                                          /\ j < get_tail_ptr(bucket, c)
                     THEN EMPTY ELSE At(sa, j)]_vars

\* the state after the clear_tails of the first pass on a string in which a
\* character has both lms positions, cleared from the tail of its bucket, and
\* L-type positions, kept at its head
C22_Witness ==
    /\ pc = "induce_s"
    /\ pass = 1
    /\ \E c \in Bytes2 :
          /\ At(bucket.bounds, c) < get_l_ptr(bucket, c)
          /\ At(sa, At(bucket.bounds, c)) # EMPTY
          /\ \E i \in LmsPositions(s) : At(s, i) = c
          /\ At(sa, get_tail_ptr(bucket, c) - 1) = EMPTY

\* C23: after the first induction pass and the renaming, whatever the order of
\* the lms seeds inside their bucket tails, every lms position i below |s| is
\* written once, to the cell i / 2, which lies in head, and no two positions
\* share a cell; the names are exactly 0..k-1; two positions have the same
\* name iff their lms substrings are equal as sequences of (value, type)
\* pairs, and a smaller name iff the substring sorts before; and after the
\* compaction head starts with the names of the lms positions in text order.
C23_ReducedString ==
    res.op \in {"rename_substrs", "compact"} =>
       LET L == LmsPositions(s)
           wr == res.val.wr
           name(i) == At(res.val.head, i \div 2)
       IN /\ {w[1] : w \in Range(wr)} = L
          /\ Len(wr) = Cardinality(L)
          /\ \A w \in Range(wr) : w[2] = w[1] \div 2 /\ w[2] >= 0 /\ w[2] < cur
          /\ \A i, j \in L : i # j => i \div 2 # j \div 2
          /\ {name(i) : i \in L} = 0..(k - 1)
          /\ \A c \in 0..(cur - 1) :
                (\A i \in L : i \div 2 # c) => At(res.val.head, c) = NIL32
          /\ \A i, j \in L :
                /\ name(i) = name(j) <=> SameLmsSubstring(s, i, j)
                /\ name(i) < name(j) <=> SeqLess(LmsKey(s, i), LmsKey(s, j))
          /\ res.op = "compact" =>
                /\ res.val.t = Cardinality(L)
                /\ Slice(sa, 0, res.val.t)
                      = [r \in 1..Cardinality(L) |-> name(LmsInTextOrder(s)[r])]

\* a compacted head of three names, two of them equal, renamed from seeds that
\* were not placed in the order of for_each_lms
C23_Witness ==
    /\ pc = "compacted"
    /\ res.op = "compact"
    /\ res.val.t >= 3
    /\ k < res.val.t
    /\ k >= 2
    /\ \E a, b \in 1..Len(res.val.wr) :
          a < b /\ res.val.wr[a][1] < res.val.wr[b][1]

\* C24: when suffixes_from_substrs returns, the first m cells of the
\* workspace, m the number of lms positions with the sentinel, hold the lms
\* positions in ascending order of their suffixes, |s| in cell 0; the
\* short-circuit path is the one taken exactly when the lms substrings are
\* pairwise different, which is when k + 1 = m.
C24_SortedLmsSuffixes ==
    LET L == LmsPositions(s)
        m == Len(sa) - cur
        distinct == \A i, j \in L : i # j => ~SameLmsSubstring(s, i, j)
    IN /\ pc \in {"named", "compacted", "returned"} =>
             /\ m = Cardinality(L) + 1
             /\ (k + 1 = m) <=> distinct
       /\ pc = "compacted" => ~distinct
       /\ pc = "returned" =>
             /\ (res.op = "short_circuit") <=> distinct
             /\ (res.op = "recursive") <=> ~distinct
             /\ At(sa, 0) = Len(s)
             /\ Slice(sa, 0, m) = Among(naive_sort(s), L \cup {Len(s)})

\* a return on the recursive path with at least four lms suffixes
C24_Witness ==
    /\ pc = "returned"
    /\ res.op = "recursive"
    /\ Len(sa) - cur >= 4
    /\ k >= 2

\* a return on the short-circuit path with at least three lms suffixes
C24_ShortCircuitReached ==
    /\ pc = "returned"
    /\ res.op = "short_circuit"
    /\ Len(sa) - cur >= 3

\* C25: transform_string rewrites every L-type cell to the head index of the
\* bucket of its character and every S-type cell to the last index of that
\* bucket, the last cell being L-type; the values lie in 1..|s|; a smaller
\* character gets a smaller value; and the transformed string has the suffix
\* array of the original one, which is the array the engine returns.
C25_TransformString ==
    LET head(c) == 1 + Cardinality({x \in 1..Len(s0) : s0[x] < c})
        last(c) == Cardinality({x \in 1..Len(s0) : s0[x] <= c})
    IN /\ pc = "transformed" =>
             /\ Len(s) = Len(s0)
             /\ ~IsSType(s0, Len(s0) - 1)
             /\ \A i \in 0..(Len(s0) - 1) :
                   /\ At(s, i) = IF IsSType(s0, i) THEN last(At(s0, i))
                                 ELSE head(At(s0, i))
                   /\ At(s, i) >= 1 /\ At(s, i) <= Len(s0)
             /\ \A i, j \in 0..(Len(s0) - 1) :
                   At(s0, i) < At(s0, j) => At(s, i) < At(s, j)
             /\ naive_sort(s) = naive_sort(s0)
       /\ (pc = "done" /\ Len(s0) > 0) =>
             /\ sa = naive_sort(s0)
             /\ sa = naive_sort(s)

\* a transformed string in which one character has become two values, in a
\* bucket of three cells or more
C25_Witness ==
    /\ pc = "transformed"
    /\ \E i, j \in 0..(Len(s0) - 1) :
          /\ At(s0, i) = At(s0, j)
          /\ At(s, i) + 2 <= At(s, j)

\* the array the table rule gives: the valid calls, in order, written from the
\* pointer of their bucket on, one cell further (d = 1, heads) or one cell
\* back (d = -1, tails) each time, over the array before
TableRule(before, calls, stype, d) ==
    LET valid(j) == IsSType(s0, calls[j]) = stype
        cell(j) == At(s, calls[j])
                      + d * Cardinality({h \in 1..(j - 1) :
                                            valid(h) /\ At(s, calls[h]) = At(s, calls[j])})
    IN [c \in 1..Len(before) |->
           IF \E j \in 1..Len(calls) : valid(j) /\ cell(j) = c - 1
           THEN calls[CHOOSE j \in 1..Len(calls) : valid(j) /\ cell(j) = c - 1]
           ELSE before[c]]

\* C26: in llhsais, after the calls of insert_head of phase L and finish_head
\* the workspace is the array the rule SA[p[c]++] = i gives for the same calls
\* over the array the phase started from, and after the calls of insert_tail
\* of phase S and finish_tail, and after those of the seeding of the lms
\* positions and finish_tail, it is the array the rule SA[--q[c]] = i gives;
\* no MULTI, no UNIQUE and no counter is left, and every index inserted
\* is there once.
C26_InPlaceRefinesTable ==
    engine = "llhsais" =>
       /\ pc = "clear_lms" =>
             /\ sa = TableRule(res.val.before, res.val.ins, FALSE, 1)
             /\ \A c \in 1..Len(sa) : sa[c] = EMPTY_LLH \/ (sa[c] >= 0 /\ sa[c] <= Len(s))
             /\ \A j \in 1..Len(res.val.ins) :
                   Cardinality({c \in 1..Len(sa) : sa[c] = res.val.ins[j]}) = 1
       /\ (pc \in {"sort", "done"} /\ Len(s0) > 0) =>
             /\ sa = TableRule(res.val.before, res.val.ins, TRUE, -1)
             /\ \A c \in 1..Len(sa) : sa[c] = EMPTY_LLH \/ (sa[c] >= 0 /\ sa[c] <= Len(s))
             /\ \A j \in 1..Len(res.val.ins) :
                   IsSType(s0, res.val.ins[j]) =>
                       Cardinality({c \in 1..Len(sa) : sa[c] = res.val.ins[j]}) = 1
       /\ (pc = "prepare_l" /\ pass = 1) =>
             sa = TableRule(Put(Fill(Len(sa), EMPTY_LLH), 0, Len(s)),
                            [j \in 1..Len(for_each_lms(s, FALSE)) |->
                                for_each_lms(s, FALSE)[j][1]],
                            TRUE, -1)
       /\ (pc = "done" /\ Len(s0) > 0) => sa = naive_sort(s0)

\* the array of the final induction of llhsais after finish_head, where a
\* bucket took three insertions or more, one insertion collapsed a block
\* with the cursor in it, and finish_head flushed a block
C26_Witness ==
    /\ engine = "llhsais"
    /\ pc = "clear_lms"
    /\ pass = 2
    /\ res.val.flushed >= 1
    /\ res.val.shifts >= 1
    /\ \E i \in 0..(Len(s) - 1) :
          Cardinality({j \in 1..Len(res.val.ins) :
                          At(s, res.val.ins[j]) = At(s, i)}) >= 3

\* the seeds of llhsais after finish_tail, where a bucket took two lms
\* positions and has two more cells for S-type positions, so that the block
\* of the two was never collapsed and finish_tail flushed it
C26_TailFlushReached ==
    /\ engine = "llhsais"
    /\ pc = "prepare_l"
    /\ pass = 1
    /\ \E i \in LmsPositions(s0) :
          /\ Cardinality({j \in LmsPositions(s0) : At(s, j) = At(s, i)}) = 2
          /\ Cardinality({j \in 0..(Len(s) - 1) : At(s, j) = At(s, i)}) >= 4

\* the index entries of a workspace from cell lo on, in the order of the cells
Entries(w, lo) == Among(Slice(w, lo, Len(w)), {x \in 0..Len(s) : TRUE})
Reversed(xs) == [j \in 1..Len(xs) |-> xs[Len(xs) + 1 - j]]

\* C27: in the scans of both inner engines, after every turn that read an
\* index entry the cursor, moved with the block if the insertion shifted it,
\* is on the cell that holds that entry; and over a whole phase the entries
\* read are the index entries of the flattened array, each once, in the order
\* of the cells in phase L and in the opposite order in phase S (which stops
\* before cell 0).
C27_CursorFollowsBlock ==
    /\ (res.op \in {"step_l", "step_s"} /\ res.val.entry # NoEntry) =>
          /\ res.val.at >= 0 /\ res.val.at < Len(sa)
          /\ At(sa, res.val.at) = res.val.entry
          /\ res.val.entry >= 0 /\ res.val.entry <= Len(s)
    /\ pc = "clear_lms" => res.val.seen = Entries(sa, 0)
    /\ (pc \in {"sort", "done"} /\ Len(s0) > 0) =>
          res.val.seen = Reversed(Entries(sa, 1))
    /\ pc \in {"scan_l", "scan_s", "clear_lms", "sort"} =>
          \A a, b \in 1..Len(res.val.seen) :
             a # b => res.val.seen[a] # res.val.seen[b]

\* the end of a phase L of sacak_u32s in which two insertions shifted the block
\* the cursor was in
C27_Witness ==
    /\ engine = "sacak_u32s"
    /\ pc = "clear_lms"
    /\ res.val.shifts >= 2
    /\ Len(res.val.seen) >= 5

\* C28 as the specification states it, for llhsais: at every step after the
\* call each cell of the workspace holds a value in 0..n or one of EMPTY,
\* UNIQUE and MULTI.
C28_CellsAsStated ==
    (engine = "llhsais" /\ pc # "call") =>
        \A c \in 1..Len(sa) :
           (sa[c] >= 0 /\ sa[c] <= Len(s)) \/ sa[c] \in {EMPTY_LLH, UNIQUE, MULTI}

\* C29: in the parallel sweep a task changes no cell but its own, so that at
\* every moment of every interleaving each cell of head holds the mark of its
\* finished task and every other cell 0xffffffff; and at the return the k and
\* the head of the parallel rename_substrs are those of the serial one.
C29_RayonRename ==
    /\ pc = "sweep" =>
          \A p \in 0..(Len(sa) - 1) :
             At(sa, p) = IF p \in sweep_done
                            /\ ~lms_substr_eq(s, At(rename_tail, p),
                                              At(rename_tail, p - 1))
                         THEN MarkNe ELSE MarkEq
    /\ pc = "done" =>
          \E rn \in {rename_substrs(s, rename_head0, rename_tail)} :
             /\ k = rn.k
             /\ [j \in 1..Len(sa) |-> plain_word(sa[j])] = rn.head

\* a return after a sweep that found equal and different neighbours, and a
\* renaming that wrote a name into a cell whose mark of equality was still
\* to be read
C29_Witness ==
    /\ pc = "done"
    /\ res.val.kept >= 1
    /\ k >= 2
    /\ \E p \in sweep_tasks : res.val.marks[p + 1] = MarkNe

\* C30: in the debug and in the release build, reading Types[i] at a position
\* i < |s| of the bitmap Types::calculate(s) built returns true exactly when
\* position i is S-type.
C30_BitmapReadAfterWrite ==
    res.op = "types_index" =>
        res.val.bit = (IF IsSType(s, res.val.i) THEN "true" ELSE "false")
====
